---- MODULE Spec2Model ----
(***************************************************************************)
(* Client-side aggregation and mutation layer of the talent showcase:      *)
(* TalentShowcase (fetchTalents, handleLike), AdminTalentShowcase          *)
(* (fetchAllTalents, handleDelete), AdminHostelServices (fetchAllServices, *)
(* handleStatusChange) and AdminUserManagement (fetchAllUsers,             *)
(* handleRoleChange), over a record store reached by asynchronous calls.   *)
(*                                                                         *)
(* A store write is two steps: the store executes it at some moment after  *)
(* it was sent (a Store...Write action) and the awaiting handler resumes   *)
(* later.  A query is answered at some moment between its sending and the  *)
(* resumption of its handler; only a write changes what the answer is, so  *)
(* a pending query is answered either just before a write is executed      *)
(* (AnsweredBeforeWrite) or when its handler resumes.  One component is    *)
(* mounted per behaviour (mounted); the components share only the store.   *)
(*                                                                         *)
(* The dialogs and the search box of TalentShowcase have specifications of *)
(* their own, each over TalentShowcase at rest: CommentsModal              *)
(* (fetchComments, handlePostComment) in SpecComments, UploadTalentModal   *)
(* (handleFileChange, handleSubmit) in SpecUpload, and filteredTalents in  *)
(* SpecFilter.  Texts that are parsed or compared (comments, MIME types,   *)
(* search texts) are sequences of characters.  SpecReturning is Spec under  *)
(* the assumption that every query of a load returns (weak fairness of     *)
(* QueryReturns), for what a load must eventually do.                      *)
(***************************************************************************)
EXTENDS Naturals, Integers, Sequences, FiniteSets, TLC

\* ------------------------------------------------------------------ bounds
\* Loads of the mounted view that may be in flight together.
MaxInFlight == 2
\* Store writes of the mounted view that may be in flight together.
MaxWrites == 2
\* Cap on the number of talent_likes rows the store holds for one (item, viewer).
MaxDup == 2
\* User actions that start asynchronous work (clicks, session changes) per behaviour.
MaxActions == 2

\* ------------------------------------------------------------------ data
Null == "null"
TalentIds == {"t1", "t2"}
\* "ua" and "ub" have accounts; "gone" is an owner whose profile was deleted.
Viewers == {"ua", "ub"}
SortKeys == {"created_at", "likes_count"}
Roles == {"user", "admin"}
ProtectedEmail == "udhayas1309@gmail.com"
EmailOf(id) == IF id = "ua" THEN ProtectedEmail ELSE "ub@example.org"
Statuses == {"Pending", "In Progress", "Completed"}
ServiceIds == {"s1", "s2"}
\* created_at of a row, by its id.
CreatedAt(id) == IF id \in {"t1", "s1", "ua"} THEN 1 ELSE 2
\* A profile that was not resolved: null.
NullProfile == [id |-> Null]

VARIABLES
    mounted,      \* the component of this behaviour
    talentsTbl,   \* store: talents rows, [id, user_id, created_at]
    profilesTbl,  \* store: profiles rows, [id, email, role, created_at]
    likesTbl,     \* store: talent_likes, number of rows per <<talent_id, user_id>>
    servicesTbl,  \* store: hostel_services rows, [id, user_id, status, updated_at, created_at]
    user,         \* useAuth().user: a viewer id or Null
    sortBy,       \* TalentShowcase state
    talents,      \* TalentShowcase / AdminTalentShowcase state: the displayed list
    services,     \* AdminHostelServices state: the displayed list
    users,        \* AdminUserManagement state: the displayed list
    loading,      \* the mounted component's loading flag
    error,        \* the mounted admin component's error message, "" if none
    fetches,      \* loads in flight, in issue order
    writes,       \* handler calls awaiting their store write, in issue order
    alertMsg,     \* what the last step showed with alert() or window.confirm(),
                  \* "none" if nothing
    actions,      \* user actions taken so far
    lastDone,     \* the load that last handed a list to the display
    probe,        \* the handleLike calls on one (item, viewer) being followed
    consoleMsg,   \* what the last step wrote with console.error, "none" if nothing
    commentsTbl,  \* talent_comments, in the order in which the rows were created
    mediaTbl,     \* the objects of the talent-media bucket
    commentsModal,  \* the CommentsModal: its talent (Null when closed) and its state
    uploadModal,  \* the UploadTalentModal: whether it is shown, and its state
    lastSubmit,   \* the store calls of the handleSubmit call that ended last
    searchQuery   \* the text of the search box of TalentShowcase

\* The dialogs of TalentShowcase, the tables they write and the search box.
modals == <<commentsTbl, mediaTbl, commentsModal, uploadModal, lastSubmit, searchQuery>>

vars == <<mounted, talentsTbl, profilesTbl, likesTbl, servicesTbl, user, sortBy,
          talents, services, users, loading, error, fetches, writes, alertMsg,
          actions, lastDone, probe, consoleMsg, modals>>

\* What TalentShowcase neither reads nor writes.
otherViews == <<servicesTbl, services, users, error>>

\* ------------------------------------------------------------------ helpers
\* The texts typed into the comment form: none, whitespace only, a word, and
\* a word with whitespace around it.
Texts == {<<>>, <<" ">>, <<" ", " ">>, <<"a">>, <<" ", "a", " ">>}

Remove(s, i) == [k \in 1..(Len(s) - 1) |-> IF k < i THEN s[k] ELSE s[k + 1]]

Range(s) == {s[k] : k \in 1..Len(s)}

\* [...new Set(xs)]: the distinct values of xs, in order of first occurrence.
RECURSIVE Dedup(_)
Dedup(xs) ==
    IF xs = <<>> THEN <<>>
    ELSE LET front == Dedup(SubSeq(xs, 1, Len(xs) - 1))
             last == xs[Len(xs)]
         IN IF last \in Range(front) THEN front ELSE Append(front, last)

\* ------------------------------------------------------------------ store
\* likes_count of a talents row: kept by the store from the talent_likes rows.
LikesCount(t) ==
    LET RECURSIVE Sum(_)
        Sum(S) == IF S = {} THEN 0
                  ELSE LET u == CHOOSE x \in S : TRUE
                       IN likesTbl[<<t, u>>] + Sum(S \ {u})
    IN Sum(Viewers)

\* select('*') on talents: a stored row with its likes_count column.
TalentRow(r) == [id |-> r.id, user_id |-> r.user_id, created_at |-> r.created_at,
                 likes_count |-> LikesCount(r.id)]

\* .order(key, { ascending: false }): every listing of the rows in which the
\* key never increases (the order of rows with equal keys is the store's choice).
OrderedDesc(rows, key) ==
    {s \in [1..Cardinality(rows) -> rows] :
        /\ \A i, j \in DOMAIN s : i # j => s[i] # s[j]
        /\ \A i \in DOMAIN s : i < Len(s) => s[i][key] >= s[i + 1][key]}

QueryTalents(key) == OrderedDesc({TalentRow(r) : r \in talentsTbl}, key)

\* .from('hostel_services').select('*').order('created_at', { ascending: false })
QueryServices == OrderedDesc(servicesTbl, "created_at")

\* .from('profiles').select('*').order('created_at', { ascending: false })
QueryUsers == OrderedDesc(profilesTbl, "created_at")

\* .from('profiles').select(...).in('id', keys)
QueryProfilesIn(keys) == {p \in profilesTbl : p.id \in Range(keys)}

\* .from('talent_likes').select('talent_id').eq('user_id', u)
QueryLikesOf(u) == {t \in TalentIds : likesTbl[<<t, u>>] > 0}

\* ------------------------------------------------------------------ loads
\* One invocation of a load function.  sortBy and user are the values of the
\* render whose closure was invoked; rows is the list being built
\* (processedTalents); keys is what the profile query was sent with; liked is
\* the talent ids of the reaction query's answer.  nPrimary, nProfiles and
\* nLikes count the queries this invocation has issued, nRows the rows its
\* primary query returned; overtaken says that a load issued after this one
\* has already replaced the displayed list, cause is what invoked the load,
\* and written says that the store executed a write since the load was
\* invoked (or, for a load invoked by a handler, since that handler's write).
NewFetch(sb, u, cause) ==
    [pc |-> "primary", resp |-> "none", sortBy |-> sb, user |-> u,
     rows |-> <<>>, keys |-> <<>>, liked |-> {}, nRows |-> 0,
     nPrimary |-> 1, nProfiles |-> 0, nLikes |-> 0, overtaken |-> FALSE,
     cause |-> [op |-> cause.op, id |-> cause.id, value |-> cause.value,
                resp |-> cause.resp],
     written |-> cause.written]

\* What invokes a load: the effect of a render, or a handler call whose
\* store write returned (the record of that call, see NewWrite).
Effect == [op |-> "effect", id |-> Null, value |-> Null, resp |-> "none",
           written |-> FALSE]

\* The list the mounted component displays.
Displayed ==
    CASE mounted = "AdminHostelServices" -> services
      [] mounted = "AdminUserManagement" -> users
      [] OTHER -> talents

\* A user action is taken, within the bound.
UserAction == actions < MaxActions /\ actions' = actions + 1

\* setLoading(true) and the primary query is sent.
StartFetch(sb, u, cause) ==
    /\ Len(fetches) < MaxInFlight
    /\ loading' = TRUE
    /\ fetches' = Append(fetches, NewFetch(sb, u, cause))

\* console.error(...) in the catch of the mounted component's load.
FetchErrorLog ==
    CASE mounted = "AdminHostelServices" -> "Error fetching services:"
      [] mounted = "AdminUserManagement" -> "Error fetching users:"
      [] OTHER -> "Error fetching talents:"

\* console.error(...) in the catch of the admin handler that sent write `op`.
WriteErrorLog(op) ==
    CASE op = "deleteTalent" -> "Error deleting talent:"
      [] op = "status" -> "Error updating status:"
      [] OTHER -> "Error updating role:"

\* The end of a failed load as it would be without the finally.
EndFetchWithoutFinally(i) ==
    /\ UNCHANGED loading
    /\ fetches' = Remove(fetches, i)
    /\ UNCHANGED lastDone

\* The load at position i is over without a list: finally { setLoading(false) }.
EndFetch(i) ==
    /\ loading' = FALSE
    /\ fetches' = Remove(fetches, i)
    /\ UNCHANGED lastDone

\* The load at position i replaces the displayed list and is over; the loads
\* issued before it that are still in flight have been overtaken.
Overtake(i) ==
    [k \in 1..Len(fetches) |->
        IF k < i THEN [fetches[k] EXCEPT !.overtaken = TRUE] ELSE fetches[k]]

\* The setter as it would be if a load that was overtaken kept its hands off.
ReplacesUnlessOvertaken(f, result, shown) == IF f.overtaken THEN shown ELSE result

\* What the display holds after load f called its setter with `result` while
\* `shown` was displayed: the setter replaces the list, whatever the load's age.
Replaces(f, result, shown) == result

\* The record of a load that handed `result` to the display.
Done(f, result) == [result |-> result, overtaken |-> f.overtaken, nRows |-> f.nRows]

\* What is left of load i when it hands over its list: finally { setLoading(false) }.
FinishFetch(i, result) ==
    /\ loading' = FALSE
    /\ fetches' = Remove(Overtake(i), i)
    /\ lastDone' = Done(fetches[i], result)

\* setTalents(result)
CompleteFetch(i, result) ==
    /\ talents' = Replaces(fetches[i], result, talents)
    /\ FinishFetch(i, result)

\* The primary query as it would be if it read the sort key selected when
\* the query is answered.
PrimaryQueryBySelectedKey(f) ==
    CASE mounted = "AdminHostelServices" -> QueryServices
      [] mounted = "AdminUserManagement" -> QueryUsers
      [] OTHER -> QueryTalents(sortBy)

\* The primary query of the mounted component's load, answered now.
PrimaryQuery(f) ==
    CASE mounted = "AdminHostelServices" -> QueryServices
      [] mounted = "AdminUserManagement" -> QueryUsers
      [] OTHER -> QueryTalents(f.sortBy)

\* What the pending query of load f may be answered with just before a write:
\* not answered yet, or answered with the rows of this moment.
AnsweredNow(f) ==
    LET g == [f EXCEPT !.written = TRUE]
    IN {g} \cup
       (IF f.resp = "none" /\ f.pc = "primary"
        THEN {[g EXCEPT !.resp = "ok", !.rows = data] : data \in PrimaryQuery(f)}
        ELSE {}) \cup
       (IF f.resp = "none" /\ f.pc = "likes"
        THEN {[g EXCEPT !.resp = "ok", !.liked = QueryLikesOf(f.user)]}
        ELSE {})

\* The loads in flight after any of their pending queries were answered.
AnsweredBeforeWrite ==
    LET RECURSIVE Upto(_)
        Upto(k) == IF k = 0 THEN {<<>>}
                   ELSE {Append(fs, g) : fs \in Upto(k - 1), g \in AnsweredNow(fetches[k])}
    IN Upto(Len(fetches))

\* The store executes the write of handler call j: the pending queries are
\* answered first or later, and every load and every executed write that
\* awaits its handler has seen a write since.
WriteExecuted(j) ==
    /\ fetches' \in AnsweredBeforeWrite
    /\ writes' = [k \in 1..Len(writes) |->
                     IF k = j THEN [writes[k] EXCEPT !.resp = "ok", !.written = FALSE]
                     ELSE [writes[k] EXCEPT !.written = TRUE]]

\* The rows the resumed handler gets from its primary query: the answer taken
\* before a write, or else the rows as they are now.
PrimaryAnswer(f) == IF f.resp = "ok" THEN {f.rows} ELSE PrimaryQuery(f)

\* The talent ids the resumed handler gets from its reaction query.
LikesAnswer(f) == IF f.resp = "ok" THEN f.liked ELSE QueryLikesOf(f.user)

\* The first form of the records as it would be with the flag set.
InitialRowsLiked(data) ==
    [k \in 1..Len(data) |->
        [id |-> data[k].id, user_id |-> data[k].user_id,
         created_at |-> data[k].created_at, likes_count |-> data[k].likes_count,
         profile |-> NullProfile, is_liked |-> TRUE]]

\* talentsData.map(t => ({...t, profile: null, is_liked: false}))
InitialRows(data) ==
    [k \in 1..Len(data) |->
        [id |-> data[k].id, user_id |-> data[k].user_id,
         created_at |-> data[k].created_at, likes_count |-> data[k].likes_count,
         profile |-> NullProfile, is_liked |-> FALSE]]

\* The owner ids as they would be without the Set: one per row.
UserIdsPerRow(data) == [k \in 1..Len(data) |-> data[k].user_id]

\* [...new Set(talentsData.map(t => t.user_id))]
UserIds(data) == Dedup([k \in 1..Len(data) |-> data[k].user_id])

\* The lookup as it would be if it took a returned profile whatever its id.
ProfileForAny(pdata, uid) ==
    IF pdata # {} THEN CHOOSE p \in pdata : TRUE ELSE NullProfile

\* profilesMap.get(talent.user_id) || null
ProfileFor(pdata, uid) ==
    IF \E p \in pdata : p.id = uid
    THEN CHOOSE p \in pdata : p.id = uid
    ELSE NullProfile

\* processedTalents.map(talent => ({...talent, profile: ...}))
AttachProfiles(rows, pdata) ==
    [k \in 1..Len(rows) |->
        [rows[k] EXCEPT !.profile = ProfileFor(pdata, rows[k].user_id)]]

\* processedTalents.map(talent => ({...talent, is_liked: likedIds.has(talent.id)}))
AttachLiked(rows, likedIds) ==
    [k \in 1..Len(rows) |-> [rows[k] EXCEPT !.is_liked = (rows[k].id \in likedIds)]]

\* The handleLike calls being followed: none yet (n = 0), one call or two calls
\* by `user` on item `id`, whose displayed record had is_liked and likes_count
\* when the first call was made; or given up (n = 3), after a call on another
\* (item, viewer) or a store call that failed.
NoProbe == [n |-> 0, id |-> Null, user |-> Null, is_liked |-> FALSE, likes_count |-> 0]

Spoiled == [NoProbe EXCEPT !.n = 3]

ProbeSpoiled == probe' = IF probe.n \in {1, 2} THEN Spoiled ELSE probe

ProbeCall(talent) ==
    probe' = CASE probe.n = 0 ->
                    [n |-> 1, id |-> talent.id, user |-> user,
                     is_liked |-> talent.is_liked, likes_count |-> talent.likes_count]
               [] probe.n = 1 /\ probe.id = talent.id /\ probe.user = user ->
                    [probe EXCEPT !.n = 2]
               [] OTHER -> Spoiled

\* ---------------------------------------------------------- TalentShowcase
TS == "TalentShowcase"

\* if (talentsError) throw talentsError  ->  catch, finally
FetchTalentsPrimaryFailed(i) ==
    /\ mounted = TS
    /\ i \in 1..Len(fetches)
    /\ fetches[i].pc = "primary" /\ fetches[i].resp = "none"
    /\ EndFetch(i)
    /\ UNCHANGED actions
    /\ ProbeSpoiled
    /\ alertMsg' = "none"
    /\ consoleMsg' = FetchErrorLog
    /\ UNCHANGED modals
    /\ UNCHANGED <<otherViews, mounted, talentsTbl, profilesTbl, likesTbl, user, sortBy,
                   talents, writes>>

\* The step as it would be if it displayed the list before the reaction query
\* returned.
FetchTalentsPersonalizeEarly(i, rows) ==
    IF fetches[i].user # Null
    THEN /\ fetches' = [fetches EXCEPT ![i].pc = "likes", ![i].resp = "none",
                                       ![i].rows = rows,
                                       ![i].nLikes = fetches[i].nLikes + 1]
         /\ talents' = rows
         /\ UNCHANGED <<loading, lastDone>>
    ELSE CompleteFetch(i, rows)

\* The part of fetchTalents from "if (user)" on, for a list `rows` that has its
\* profiles: the reaction query is sent, or the list is displayed.
FetchTalentsPersonalize(i, rows) ==
    IF fetches[i].user # Null
    THEN /\ fetches' = [fetches EXCEPT ![i].pc = "likes", ![i].resp = "none",
                                       ![i].rows = rows,
                                       ![i].nLikes = fetches[i].nLikes + 1]
         /\ UNCHANGED <<talents, loading, lastDone>>
    ELSE CompleteFetch(i, rows)

\* The primary query returned rows: the profile query is sent when there is an
\* owner id to ask for.
FetchTalentsAfterPrimary(i) ==
    /\ mounted = TS
    /\ i \in 1..Len(fetches)
    /\ fetches[i].pc = "primary"
    /\ \E data \in PrimaryAnswer(fetches[i]) :
       LET processedTalents == InitialRows(data)
           userIds == UserIds(data)
       IN IF Len(userIds) > 0
          THEN /\ fetches' = [fetches EXCEPT ![i].pc = "profiles", ![i].resp = "none",
                                             ![i].rows = processedTalents,
                                             ![i].nRows = Len(data),
                                             ![i].keys = userIds,
                                             ![i].nProfiles = fetches[i].nProfiles + 1]
               /\ UNCHANGED <<talents, loading, lastDone>>
          ELSE FetchTalentsPersonalize(i, processedTalents)
    /\ UNCHANGED actions
    /\ UNCHANGED <<probe>>
    /\ alertMsg' = "none"
    /\ consoleMsg' = "none"
    /\ UNCHANGED modals
    /\ UNCHANGED <<otherViews, mounted, talentsTbl, profilesTbl, likesTbl, user, sortBy, writes>>

\* The profile query returns.  No action writes profiles while this component
\* is mounted, so the answer is the one of the moment the handler resumes.
FetchTalentsAfterProfiles(i) ==
    /\ mounted = TS
    /\ i \in 1..Len(fetches)
    /\ fetches[i].pc = "profiles"
    /\ \/ /\ FetchTalentsPersonalize(i,
                 AttachProfiles(fetches[i].rows, QueryProfilesIn(fetches[i].keys)))
          /\ UNCHANGED probe
          /\ consoleMsg' = "none"
       \/ /\ EndFetch(i)                   \* if (profilesError) throw profilesError
          /\ UNCHANGED talents
          /\ ProbeSpoiled
          /\ consoleMsg' = FetchErrorLog
    /\ UNCHANGED actions
    /\ alertMsg' = "none"
    /\ UNCHANGED modals
    /\ UNCHANGED <<otherViews, mounted, talentsTbl, profilesTbl, likesTbl, user, sortBy, writes>>

\* new Set(likesData?.map(...) || []), is_liked, setTalents(processedTalents)
FetchTalentsAfterLikes(i) ==
    /\ mounted = TS
    /\ i \in 1..Len(fetches)
    /\ fetches[i].pc = "likes"
    /\ CompleteFetch(i, AttachLiked(fetches[i].rows, LikesAnswer(fetches[i])))
    /\ UNCHANGED probe
    /\ UNCHANGED actions
    /\ alertMsg' = "none"
    /\ consoleMsg' = "none"
    /\ UNCHANGED modals
    /\ UNCHANGED <<otherViews, mounted, talentsTbl, profilesTbl, likesTbl, user, sortBy, writes>>

\* The reaction query as it would be handled if its error were thrown like
\* the errors of the other two queries: catch, finally.
FetchTalentsLikesFailedThrowing(i) ==
    /\ mounted = TS
    /\ i \in 1..Len(fetches)
    /\ fetches[i].pc = "likes" /\ fetches[i].resp = "none"
    /\ EndFetch(i)
    /\ ProbeSpoiled
    /\ UNCHANGED actions
    /\ alertMsg' = "none"
    /\ consoleMsg' = FetchErrorLog
    /\ UNCHANGED modals
    /\ UNCHANGED <<otherViews, mounted, talentsTbl, profilesTbl, likesTbl, user, sortBy,
                   talents, writes>>

\* The reaction query returned an error in its result.  Only `data` is taken
\* from the result, and it is null: likedIds is new Set([]).
FetchTalentsLikesFailed(i) ==
    /\ mounted = TS
    /\ i \in 1..Len(fetches)
    /\ fetches[i].pc = "likes" /\ fetches[i].resp = "none"
    /\ CompleteFetch(i, AttachLiked(fetches[i].rows, {}))
    /\ ProbeSpoiled
    /\ UNCHANGED actions
    /\ alertMsg' = "none"
    /\ consoleMsg' = "none"
    /\ UNCHANGED modals
    /\ UNCHANGED <<otherViews, mounted, talentsTbl, profilesTbl, likesTbl, user, sortBy, writes>>

\* The await of the reaction query rejected: catch, finally.
FetchTalentsLikesThrew(i) ==
    /\ mounted = TS
    /\ i \in 1..Len(fetches)
    /\ fetches[i].pc = "likes" /\ fetches[i].resp = "none"
    /\ EndFetch(i)
    /\ UNCHANGED actions
    /\ ProbeSpoiled
    /\ alertMsg' = "none"
    /\ consoleMsg' = FetchErrorLog
    /\ UNCHANGED modals
    /\ UNCHANGED <<otherViews, mounted, talentsTbl, profilesTbl, likesTbl, user, sortBy,
                   talents, writes>>

\* useEffect(() => { fetchTalents(); }, [user, sortBy]): a sort button that
\* changes sortBy re-renders and runs the effect with the new value.
SetSortBy(k) ==
    /\ mounted = TS
    /\ k \in SortKeys /\ k # sortBy
    /\ sortBy' = k
    /\ StartFetch(k, user, Effect)
    /\ UserAction
    /\ UNCHANGED <<lastDone, probe>>
    /\ alertMsg' = "none"
    /\ consoleMsg' = "none"
    /\ UNCHANGED modals
    /\ UNCHANGED <<otherViews, mounted, talentsTbl, profilesTbl, likesTbl, user, talents, writes>>

\* The session changes (log in, log out): the effect runs with the new user.
SetUser(u) ==
    /\ mounted = TS
    /\ u \in Viewers \cup {Null} /\ u # user
    /\ user' = u
    /\ StartFetch(sortBy, u, Effect)
    /\ UserAction
    /\ UNCHANGED <<lastDone, probe>>
    /\ alertMsg' = "none"
    /\ consoleMsg' = "none"
    /\ UNCHANGED modals
    /\ UNCHANGED <<otherViews, mounted, talentsTbl, profilesTbl, likesTbl, sortBy, talents, writes>>

\* A handler call awaiting its store write: what it writes (op, id, value),
\* the user and sortBy of the render whose closure the handler belongs to, how
\* the write returned, and whether the store executed another write after it.
NewWrite(op, id, value) ==
    [op |-> op, id |-> id, value |-> value, user |-> user, sortBy |-> sortBy,
     resp |-> "none", written |-> FALSE]

\* The cards, and with them the like buttons, are rendered when loading is
\* false, one per displayed talent.
CardShown(t) == ~loading /\ \E k \in 1..Len(talents) : talents[k].id = t

\* talents.find((t) => t.id === talentId)
FindTalent(t) == talents[CHOOSE k \in 1..Len(talents) : talents[k].id = t]

\* The viewer test as it would be if it compared with the empty string.
AuthenticatedNonEmpty(u) == u # ""

\* The test of `if (!user)`: a viewer is signed in.
Authenticated(u) == u # Null

AuthRequired == "You must be logged in to like a post."

\* if (!user) { alert(...); return; }
HandleLikeNoUser(t) ==
    /\ mounted = TS
    /\ CardShown(t)
    /\ ~Authenticated(user)
    /\ UNCHANGED actions
    /\ UNCHANGED <<lastDone, probe>>
    /\ alertMsg' = AuthRequired
    /\ consoleMsg' = "none"
    /\ UNCHANGED modals
    /\ UNCHANGED <<otherViews, mounted, talentsTbl, profilesTbl, likesTbl, user, sortBy,
                   talents, loading, fetches, writes>>

\* const talent = talents.find(...); if (!talent) return;  A call with an id
\* that the list of the handler's render does not hold (no card makes such a
\* call: the cards are rendered from that list) returns at once.
HandleLikeNotFound(t) ==
    /\ mounted = TS
    /\ Authenticated(user)
    /\ ~(\E k \in 1..Len(talents) : talents[k].id = t)
    /\ UNCHANGED actions
    /\ UNCHANGED <<lastDone, probe>>
    /\ alertMsg' = "none"
    /\ consoleMsg' = "none"
    /\ UNCHANGED modals
    /\ UNCHANGED <<otherViews, mounted, talentsTbl, profilesTbl, likesTbl, user, sortBy,
                   talents, loading, fetches, writes>>

\* The choice of the write as it would be if it looked at the stored
\* reactions of the viewer.
LikeWriteOpFromStore(talent) ==
    IF likesTbl[<<talent.id, user>>] > 0 THEN "delete" ELSE "insert"

\* The write handleLike chooses from the displayed record.
LikeWriteOp(talent) == IF talent.is_liked THEN "delete" ELSE "insert"

\* handleLike up to its await: the delete or the insert is sent.
HandleLike(t) ==
    /\ mounted = TS
    /\ CardShown(t)
    /\ Authenticated(user)
    /\ Len(writes) < MaxWrites
    /\ writes' = Append(writes, NewWrite(LikeWriteOp(FindTalent(t)), t, user))
    /\ ProbeCall(FindTalent(t))
    /\ UserAction
    /\ UNCHANGED <<lastDone>>
    /\ alertMsg' = "none"
    /\ consoleMsg' = "none"
    /\ UNCHANGED modals
    /\ UNCHANGED <<otherViews, mounted, talentsTbl, profilesTbl, likesTbl, user, sortBy,
                   talents, loading, fetches>>

\* talent_likes after .insert({ talent_id, user_id }): one more row.
LikesInsert(tbl, t, u) == [tbl EXCEPT ![<<t, u>>] = tbl[<<t, u>>] + 1]

\* talent_likes after .delete().match({ talent_id, user_id }): no matching row.
LikesDelete(tbl, t, u) == [tbl EXCEPT ![<<t, u>>] = 0]

\* The store executes the write of handleLike call j, or fails it: with an
\* error in the result, or with a rejected promise.
StoreLikeWrite(j) ==
    /\ j \in 1..Len(writes)
    /\ writes[j].op \in {"insert", "delete"} /\ writes[j].resp = "none"
    /\ \/ /\ writes[j].op = "insert"
          /\ likesTbl[<<writes[j].id, writes[j].value>>] < MaxDup
          /\ likesTbl' = LikesInsert(likesTbl, writes[j].id, writes[j].value)
          /\ WriteExecuted(j)
          /\ UNCHANGED probe
       \/ /\ writes[j].op = "delete"
          /\ likesTbl' = LikesDelete(likesTbl, writes[j].id, writes[j].value)
          /\ WriteExecuted(j)
          /\ UNCHANGED probe
       \/ /\ writes' = [writes EXCEPT ![j].resp = "error"]
          /\ UNCHANGED <<likesTbl, fetches>>
          /\ ProbeSpoiled
       \/ /\ writes' = [writes EXCEPT ![j].resp = "threw"]
          /\ UNCHANGED <<likesTbl, fetches>>
          /\ ProbeSpoiled
    /\ UNCHANGED actions
    /\ UNCHANGED <<lastDone>>
    /\ alertMsg' = "none"
    /\ consoleMsg' = "none"
    /\ UNCHANGED modals
    /\ UNCHANGED <<otherViews, mounted, talentsTbl, profilesTbl, user, sortBy, talents,
                   loading>>

\* The await resolved (the result is not inspected): fetchTalents().
HandleLikeResumed(j) ==
    /\ mounted = TS
    /\ j \in 1..Len(writes)
    /\ writes[j].resp \in {"ok", "error"}
    /\ writes' = Remove(writes, j)
    /\ StartFetch(writes[j].sortBy, writes[j].user, writes[j])
    /\ UNCHANGED actions
    /\ UNCHANGED <<lastDone, probe>>
    /\ alertMsg' = "none"
    /\ consoleMsg' = "none"
    /\ UNCHANGED modals
    /\ UNCHANGED <<otherViews, mounted, talentsTbl, profilesTbl, likesTbl, user, sortBy, talents>>

\* The await rejected: catch (error) { console.error(...) }.
HandleLikeThrew(j) ==
    /\ mounted = TS
    /\ j \in 1..Len(writes)
    /\ writes[j].resp = "threw"
    /\ writes' = Remove(writes, j)
    /\ UNCHANGED actions
    /\ UNCHANGED <<lastDone, probe>>
    /\ alertMsg' = "none"
    /\ consoleMsg' = "Error liking talent:"
    /\ UNCHANGED modals
    /\ UNCHANGED <<otherViews, mounted, talentsTbl, profilesTbl, likesTbl, user, sortBy,
                   talents, loading, fetches>>

\* ------------------------------------------------------ admin components
ATS == "AdminTalentShowcase"
AHS == "AdminHostelServices"
AUM == "AdminUserManagement"

\* select('id, full_name, email') on profiles
ProfileColumns(pdata) == {[id |-> p.id, email |-> p.email] : p \in pdata}

\* A load of an admin component: setLoading(true); setError(''); the primary
\* query is sent.
StartAdminFetch(cause) == StartFetch("created_at", Null, cause) /\ error' = ""

\* catch (err) { setError(message) } finally { setLoading(false) }
AdminFetchFailed(i, message) == EndFetch(i) /\ error' = message

\* The tables, buttons and selects of an admin component are rendered when it
\* is neither loading nor showing its error.
ControlsShown == ~loading /\ error = ""

\* The profile query of an admin load is sent with the distinct owner ids.
SendProfilesQuery(i, data) ==
    fetches' = [fetches EXCEPT ![i].pc = "profiles", ![i].resp = "none",
                               ![i].rows = data, ![i].nRows = Len(data),
                               ![i].keys = UserIds(data),
                               ![i].nProfiles = fetches[i].nProfiles + 1]

\* data.map(row => ({...row, <field>: profilesMap.get(row.user_id) || null}))
WithProfiles(data, pdata, field) ==
    [k \in 1..Len(data) |->
        [x \in DOMAIN data[k] \cup {field} |->
            IF x = field THEN ProfileFor(pdata, data[k].user_id) ELSE data[k][x]]]

\* ---- AdminTalentShowcase
FetchAllTalentsPrimaryFailed(i) ==
    /\ mounted = ATS
    /\ i \in 1..Len(fetches)
    /\ fetches[i].pc = "primary" /\ fetches[i].resp = "none"
    /\ AdminFetchFailed(i, "Failed to fetch talents. Please check the console.")
    /\ UNCHANGED actions
    /\ UNCHANGED <<probe>>
    /\ alertMsg' = "none"
    /\ consoleMsg' = FetchErrorLog
    /\ UNCHANGED modals
    /\ UNCHANGED <<mounted, talentsTbl, profilesTbl, likesTbl, servicesTbl, user,
                   sortBy, talents, services, users, writes>>

\* The primary query returned: no rows, setTalents([]); else the profile query
\* is sent (a list with rows has at least one owner id).
FetchAllTalentsAfterPrimary(i) ==
    /\ mounted = ATS
    /\ i \in 1..Len(fetches)
    /\ fetches[i].pc = "primary"
    /\ \E data \in PrimaryAnswer(fetches[i]) :
          IF Len(data) = 0
          THEN CompleteFetch(i, <<>>)
          ELSE SendProfilesQuery(i, data) /\ UNCHANGED <<talents, loading, lastDone>>
    /\ UNCHANGED actions
    /\ UNCHANGED <<probe>>
    /\ alertMsg' = "none"
    /\ consoleMsg' = "none"
    /\ UNCHANGED modals
    /\ UNCHANGED <<mounted, talentsTbl, profilesTbl, likesTbl, servicesTbl, user,
                   sortBy, services, users, error, writes>>

\* The profile query returns (profiles are not written while this component
\* is mounted): the list is displayed, or the error is.
FetchAllTalentsAfterProfiles(i) ==
    /\ mounted = ATS
    /\ i \in 1..Len(fetches)
    /\ fetches[i].pc = "profiles"
    /\ \/ /\ CompleteFetch(i, WithProfiles(fetches[i].rows,
                 ProfileColumns(QueryProfilesIn(fetches[i].keys)), "profile"))
          /\ UNCHANGED error
          /\ consoleMsg' = "none"
       \/ /\ AdminFetchFailed(i, "Failed to fetch talents. Please check the console.")
          /\ UNCHANGED talents
          /\ consoleMsg' = FetchErrorLog
    /\ UNCHANGED actions
    /\ UNCHANGED <<probe>>
    /\ alertMsg' = "none"
    /\ UNCHANGED modals
    /\ UNCHANGED <<mounted, talentsTbl, profilesTbl, likesTbl, servicesTbl, user,
                   sortBy, services, users, writes>>

RowShown(list, id) == ControlsShown /\ \E k \in 1..Len(list) : list[k].id = id

\* window.confirm(...) as the last step's dialog, with the operator's answer.
ConfirmDialog(confirmed) == IF confirmed THEN "confirm: OK" ELSE "confirm: Cancel"

\* The test of handleDelete as it would be if the answer were not looked at.
SendsDeleteAlways(confirmed) == TRUE

\* if (window.confirm(...)) { ... }: the delete is sent when the answer is OK.
SendsDelete(confirmed) == confirmed

\* handleDelete: window.confirm(...) answered with `confirmed`; the delete is
\* sent only when it was.
HandleDelete(t, confirmed) ==
    /\ mounted = ATS
    /\ RowShown(talents, t)
    /\ IF SendsDelete(confirmed)
       THEN /\ Len(writes) < MaxWrites
            /\ writes' = Append(writes, NewWrite("deleteTalent", t, Null))
       ELSE UNCHANGED writes
    /\ UserAction
    /\ UNCHANGED <<lastDone, probe>>
    /\ alertMsg' = ConfirmDialog(confirmed)
    /\ consoleMsg' = "none"
    /\ UNCHANGED modals
    /\ UNCHANGED <<mounted, talentsTbl, profilesTbl, likesTbl, servicesTbl, user,
                   sortBy, talents, services, users, loading, error, fetches>>

\* The store executes .from('talents').delete().eq('id', talentId), or fails it.
StoreDeleteTalent(j) ==
    /\ j \in 1..Len(writes)
    /\ writes[j].op = "deleteTalent" /\ writes[j].resp = "none"
    /\ \/ /\ talentsTbl' = {r \in talentsTbl : r.id # writes[j].id}
          /\ WriteExecuted(j)
       \/ /\ writes' = [writes EXCEPT ![j].resp = "error"]
          /\ UNCHANGED <<talentsTbl, fetches>>
    /\ UNCHANGED actions
    /\ UNCHANGED <<lastDone, probe>>
    /\ alertMsg' = "none"
    /\ consoleMsg' = "none"
    /\ UNCHANGED modals
    /\ UNCHANGED <<mounted, profilesTbl, likesTbl, servicesTbl, user, sortBy,
                   talents, services, users, loading, error>>

\* The write of an admin handler returned without error: the list is loaded again.
AdminWriteSucceeded(j, op) ==
    /\ j \in 1..Len(writes)
    /\ writes[j].op = op /\ writes[j].resp = "ok"
    /\ writes' = Remove(writes, j)
    /\ StartAdminFetch(writes[j])
    /\ UNCHANGED actions
    /\ UNCHANGED <<lastDone, probe>>
    /\ alertMsg' = "none"
    /\ consoleMsg' = "none"
    /\ UNCHANGED modals
    /\ UNCHANGED <<mounted, talentsTbl, profilesTbl, likesTbl, servicesTbl, user,
                   sortBy, talents, services, users>>

\* if (error) throw error, or the await rejected: catch, alert(message).
AdminWriteFailed(j, op, message) ==
    /\ j \in 1..Len(writes)
    /\ writes[j].op = op /\ writes[j].resp = "error"
    /\ writes' = Remove(writes, j)
    /\ UNCHANGED actions
    /\ UNCHANGED <<lastDone, probe>>
    /\ alertMsg' = message
    /\ consoleMsg' = WriteErrorLog(op)
    /\ UNCHANGED modals
    /\ UNCHANGED <<mounted, talentsTbl, profilesTbl, likesTbl, servicesTbl, user,
                   sortBy, talents, services, users, loading, error, fetches>>

HandleDeleteSucceeded(j) == mounted = ATS /\ AdminWriteSucceeded(j, "deleteTalent")

HandleDeleteFailed(j) ==
    mounted = ATS /\ AdminWriteFailed(j, "deleteTalent", "Failed to delete talent")

\* ---- AdminHostelServices
FetchAllServicesPrimaryFailed(i) ==
    /\ mounted = AHS
    /\ i \in 1..Len(fetches)
    /\ fetches[i].pc = "primary" /\ fetches[i].resp = "none"
    /\ AdminFetchFailed(i, "Failed to fetch service requests. Please check the console.")
    /\ UNCHANGED actions
    /\ UNCHANGED <<probe>>
    /\ alertMsg' = "none"
    /\ consoleMsg' = FetchErrorLog
    /\ UNCHANGED modals
    /\ UNCHANGED <<mounted, talentsTbl, profilesTbl, likesTbl, servicesTbl, user,
                   sortBy, talents, services, users, writes>>

\* The list of a finished services load is displayed.
CompleteServices(i, result) ==
    /\ services' = Replaces(fetches[i], result, services)
    /\ FinishFetch(i, result)

FetchAllServicesAfterPrimary(i) ==
    /\ mounted = AHS
    /\ i \in 1..Len(fetches)
    /\ fetches[i].pc = "primary"
    /\ \E data \in PrimaryAnswer(fetches[i]) :
          IF Len(data) = 0
          THEN CompleteServices(i, <<>>)
          ELSE SendProfilesQuery(i, data) /\ UNCHANGED <<services, loading, lastDone>>
    /\ UNCHANGED actions
    /\ UNCHANGED <<probe>>
    /\ alertMsg' = "none"
    /\ consoleMsg' = "none"
    /\ UNCHANGED modals
    /\ UNCHANGED <<mounted, talentsTbl, profilesTbl, likesTbl, servicesTbl, user,
                   sortBy, talents, users, error, writes>>

FetchAllServicesAfterProfiles(i) ==
    /\ mounted = AHS
    /\ i \in 1..Len(fetches)
    /\ fetches[i].pc = "profiles"
    /\ \/ /\ CompleteServices(i, WithProfiles(fetches[i].rows,
                 ProfileColumns(QueryProfilesIn(fetches[i].keys)), "profiles"))
          /\ UNCHANGED error
          /\ consoleMsg' = "none"
       \/ /\ AdminFetchFailed(i,
                 "Failed to fetch service requests. Please check the console.")
          /\ UNCHANGED services
          /\ consoleMsg' = FetchErrorLog
    /\ UNCHANGED actions
    /\ UNCHANGED <<probe>>
    /\ alertMsg' = "none"
    /\ UNCHANGED modals
    /\ UNCHANGED <<mounted, talentsTbl, profilesTbl, likesTbl, servicesTbl, user,
                   sortBy, talents, users, writes>>

DisplayedService(x) == services[CHOOSE k \in 1..Len(services) : services[k].id = x]

\* The options as they would be if the select offered no way back.
StatusOptionsForward(current) ==
    CASE current = "Pending" -> Statuses
      [] current = "In Progress" -> {"In Progress", "Completed"}
      [] OTHER -> {"Completed"}

\* The options of the status select of a row, whatever its status.
StatusOptions(current) == Statuses

\* The status select of a row (value = the displayed status) fires onChange
\* with another option: handleStatusChange up to its await.
HandleStatusChange(x, newStatus) ==
    /\ mounted = AHS
    /\ RowShown(services, x)
    /\ newStatus \in StatusOptions(DisplayedService(x).status)
    /\ newStatus # DisplayedService(x).status
    /\ Len(writes) < MaxWrites
    /\ writes' = Append(writes, NewWrite("status", x, newStatus))
    /\ UserAction
    /\ UNCHANGED <<lastDone, probe>>
    /\ alertMsg' = "none"
    /\ consoleMsg' = "none"
    /\ UNCHANGED modals
    /\ UNCHANGED <<mounted, talentsTbl, profilesTbl, likesTbl, servicesTbl, user,
                   sortBy, talents, services, users, loading, error, fetches>>

\* hostel_services after .update({ status, updated_at }).eq('id', id)
ServicesUpdate(tbl, id, newStatus) ==
    {IF r.id = id THEN [r EXCEPT !.status = newStatus, !.updated_at = "set"] ELSE r
        : r \in tbl}

StoreStatusWrite(j) ==
    /\ j \in 1..Len(writes)
    /\ writes[j].op = "status" /\ writes[j].resp = "none"
    /\ \/ /\ servicesTbl' = ServicesUpdate(servicesTbl, writes[j].id, writes[j].value)
          /\ WriteExecuted(j)
       \/ /\ writes' = [writes EXCEPT ![j].resp = "error"]
          /\ UNCHANGED <<servicesTbl, fetches>>
    /\ UNCHANGED actions
    /\ UNCHANGED <<lastDone, probe>>
    /\ alertMsg' = "none"
    /\ consoleMsg' = "none"
    /\ UNCHANGED modals
    /\ UNCHANGED <<mounted, talentsTbl, profilesTbl, likesTbl, user, sortBy,
                   talents, services, users, loading, error>>

HandleStatusChangeSucceeded(j) == mounted = AHS /\ AdminWriteSucceeded(j, "status")

HandleStatusChangeFailed(j) ==
    mounted = AHS /\ AdminWriteFailed(j, "status", "Failed to update status.")

\* ---- AdminUserManagement
FetchAllUsersFailed(i) ==
    /\ mounted = AUM
    /\ i \in 1..Len(fetches)
    /\ fetches[i].pc = "primary" /\ fetches[i].resp = "none"
    /\ AdminFetchFailed(i, "Failed to fetch users. Ensure you are logged in as an admin.")
    /\ UNCHANGED actions
    /\ UNCHANGED <<probe>>
    /\ alertMsg' = "none"
    /\ consoleMsg' = FetchErrorLog
    /\ UNCHANGED modals
    /\ UNCHANGED <<mounted, talentsTbl, profilesTbl, likesTbl, servicesTbl, user,
                   sortBy, talents, services, users, writes>>

\* setUsers(data || [])
FetchAllUsersReturned(i) ==
    /\ mounted = AUM
    /\ i \in 1..Len(fetches)
    /\ fetches[i].pc = "primary"
    /\ \E data \in PrimaryAnswer(fetches[i]) :
          /\ users' = Replaces(fetches[i], data, users)
          /\ loading' = FALSE
          /\ fetches' = Remove(Overtake(i), i)
          /\ lastDone' = Done([fetches[i] EXCEPT !.nRows = Len(data)], data)
    /\ UNCHANGED actions
    /\ UNCHANGED <<probe>>
    /\ alertMsg' = "none"
    /\ consoleMsg' = "none"
    /\ UNCHANGED modals
    /\ UNCHANGED <<mounted, talentsTbl, profilesTbl, likesTbl, servicesTbl, user,
                   sortBy, talents, services, error, writes>>

DisplayedUser(id) == users[CHOOSE k \in 1..Len(users) : users[k].id = id]

\* The disabled test as it would be with the wrong column compared.
SelectDisabledById(row) == row.id = ProtectedEmail

\* disabled={user.email === 'udhayas1309@gmail.com'}
SelectDisabled(row) == row.email = ProtectedEmail

\* The role select of a row that is not disabled fires onChange with the other
\* option: handleRoleChange up to its await.
HandleRoleChange(id, newRole) ==
    /\ mounted = AUM
    /\ RowShown(users, id)
    /\ ~SelectDisabled(DisplayedUser(id))
    /\ newRole \in Roles /\ newRole # DisplayedUser(id).role
    /\ Len(writes) < MaxWrites
    /\ writes' = Append(writes, NewWrite("role", id, newRole))
    /\ UserAction
    /\ UNCHANGED <<lastDone, probe>>
    /\ alertMsg' = "none"
    /\ consoleMsg' = "none"
    /\ UNCHANGED modals
    /\ UNCHANGED <<mounted, talentsTbl, profilesTbl, likesTbl, servicesTbl, user,
                   sortBy, talents, services, users, loading, error, fetches>>

\* profiles after .update({ role: newRole }).eq('id', userId)
ProfilesUpdate(tbl, id, newRole) ==
    {IF r.id = id THEN [r EXCEPT !.role = newRole] ELSE r : r \in tbl}

StoreRoleWrite(j) ==
    /\ j \in 1..Len(writes)
    /\ writes[j].op = "role" /\ writes[j].resp = "none"
    /\ \/ /\ profilesTbl' = ProfilesUpdate(profilesTbl, writes[j].id, writes[j].value)
          /\ WriteExecuted(j)
       \/ /\ writes' = [writes EXCEPT ![j].resp = "error"]
          /\ UNCHANGED <<profilesTbl, fetches>>
    /\ UNCHANGED actions
    /\ UNCHANGED <<lastDone, probe>>
    /\ alertMsg' = "none"
    /\ consoleMsg' = "none"
    /\ UNCHANGED modals
    /\ UNCHANGED <<mounted, talentsTbl, likesTbl, servicesTbl, user, sortBy,
                   talents, services, users, loading, error>>

HandleRoleChangeSucceeded(j) == mounted = AUM /\ AdminWriteSucceeded(j, "role")

HandleRoleChangeFailed(j) ==
    mounted = AUM /\ AdminWriteFailed(j, "role", "Failed to update role")

\* ------------------------------------------------------- CommentsModal
\* selectedTalentForComments is null: no CommentsModal is rendered.
NoCommentsModal == [talent |-> Null]

\* showUploadModal is false: no UploadTalentModal is rendered.
NoUploadModal == [shown |-> FALSE]

\* Texts are sequences of characters.
Whitespace == {" "}

\* String.prototype.trim(): the text without its leading and trailing whitespace.
RECURSIVE Trim(_)
Trim(text) ==
    IF text = <<>> THEN <<>>
    ELSE IF Head(text) \in Whitespace THEN Trim(Tail(text))
    ELSE IF text[Len(text)] \in Whitespace THEN Trim(SubSeq(text, 1, Len(text) - 1))
    ELSE text

\* What the dialogs leave alone: TalentShowcase itself, its loads and its tables.
showcase == <<mounted, talentsTbl, profilesTbl, likesTbl, servicesTbl, user, sortBy,
              talents, services, users, loading, error, fetches, writes, lastDone,
              probe>>

\* What the comments dialog leaves alone.
otherDialogs == <<mediaTbl, uploadModal, lastSubmit, searchQuery>>

\* .from('talent_comments').select(...).eq('talent_id', id).order('created_at',
\* { ascending: true }): the comments of the talent, oldest first.
QueryComments(id) == SelectSeq(commentsTbl, LAMBDA c : c.talent_id = id)

\* A fetchComments call awaiting its query.
NewCommentsFetch == [resp |-> "none", rows |-> <<>>]

\* The form, and with it the submit of handlePostComment, is rendered for a
\* signed-in viewer: {user && (<form onSubmit={handlePostComment}>...)}.
FormShown == commentsModal.talent # Null /\ user # Null

\* onChange={(e) => setNewComment(e.target.value)}
SetNewComment(text) ==
    /\ FormShown
    /\ text \in Texts /\ text # commentsModal.newComment
    /\ commentsModal' = [commentsModal EXCEPT !.newComment = text]
    /\ UNCHANGED actions
    /\ alertMsg' = "none"
    /\ consoleMsg' = "none"
    /\ UNCHANGED <<showcase, commentsTbl, otherDialogs>>

\* The test of handlePostComment as it would be without trim().
RejectedUntrimmed(text, u) == text = <<>> \/ u = Null

\* if (!newComment.trim() || !user) return;
Rejected(text, u) == Trim(text) = <<>> \/ u = Null

\* handlePostComment returns at its first test: nothing is sent.
HandlePostCommentRejected ==
    /\ FormShown
    /\ Rejected(commentsModal.newComment, user)
    /\ UserAction
    /\ alertMsg' = "none"
    /\ consoleMsg' = "none"
    /\ UNCHANGED <<showcase, commentsTbl, commentsModal, otherDialogs>>

\* handlePostComment up to its await: the insert is sent.
HandlePostComment ==
    /\ FormShown
    /\ ~Rejected(commentsModal.newComment, user)
    /\ Len(commentsModal.posting) < MaxWrites
    /\ commentsModal' = [commentsModal EXCEPT
                            !.posting = Append(commentsModal.posting,
                                               [content |-> commentsModal.newComment,
                                                talent_id |-> commentsModal.talent,
                                                user_id |-> user, resp |-> "none"])]
    /\ UserAction
    /\ alertMsg' = "none"
    /\ consoleMsg' = "none"
    /\ UNCHANGED <<showcase, commentsTbl, otherDialogs>>

\* What the pending query of a fetchComments call may be answered with just
\* before an insert: not answered yet, or answered with the rows of this moment.
CommentsAnsweredNow(f) ==
    {f} \cup (IF f.resp = "none"
              THEN {[resp |-> "ok", rows |-> QueryComments(commentsModal.talent)]}
              ELSE {})

\* The fetchComments calls in flight after any of their queries were answered.
CommentsAnsweredBeforeWrite ==
    LET RECURSIVE Upto(_)
        Upto(k) == IF k = 0 THEN {<<>>}
                   ELSE {Append(fs, g) : fs \in Upto(k - 1),
                                         g \in CommentsAnsweredNow(commentsModal.fetching[k])}
    IN Upto(Len(commentsModal.fetching))

\* talent_comments after .insert({ content, talent_id, user_id }): one more row.
CommentsInsert(tbl, post) ==
    Append(tbl, [content |-> post.content, talent_id |-> post.talent_id,
                 user_id |-> post.user_id])

\* The store executes the insert of handlePostComment call j, or fails it.
StoreCommentInsert(j) ==
    /\ commentsModal.talent # Null
    /\ j \in 1..Len(commentsModal.posting)
    /\ commentsModal.posting[j].resp = "none"
    /\ \/ /\ commentsTbl' = CommentsInsert(commentsTbl, commentsModal.posting[j])
          /\ \E fs \in CommentsAnsweredBeforeWrite :
                commentsModal' = [commentsModal EXCEPT !.fetching = fs,
                                                       !.posting[j].resp = "ok"]
       \/ /\ commentsModal' = [commentsModal EXCEPT !.posting[j].resp = "error"]
          /\ UNCHANGED commentsTbl
    /\ UNCHANGED actions
    /\ alertMsg' = "none"
    /\ consoleMsg' = "none"
    /\ UNCHANGED <<showcase, otherDialogs>>

\* fetchComments() after the insert: the thread of the dialog's talent is
\* loaded again (the loading flag is not set again), by the dialog `modal` that
\* handlePostComment leaves.
Refetch(modal) ==
    /\ Len(modal.fetching) < MaxInFlight
    /\ commentsModal' = [modal EXCEPT !.fetching = Append(modal.fetching, NewCommentsFetch)]
    /\ UNCHANGED showcase

\* The insert returned no error: setNewComment(''); fetchComments().
HandlePostCommentSucceeded(j) ==
    /\ commentsModal.talent # Null
    /\ j \in 1..Len(commentsModal.posting)
    /\ commentsModal.posting[j].resp = "ok"
    /\ Refetch([commentsModal EXCEPT !.newComment = <<>>,
                                     !.posting = Remove(commentsModal.posting, j)])
    /\ UNCHANGED actions
    /\ alertMsg' = "none"
    /\ consoleMsg' = "none"
    /\ UNCHANGED <<commentsTbl, otherDialogs>>

\* if (error) throw error  ->  catch: console.error, alert.
HandlePostCommentFailed(j) ==
    /\ commentsModal.talent # Null
    /\ j \in 1..Len(commentsModal.posting)
    /\ commentsModal.posting[j].resp = "error"
    /\ commentsModal' = [commentsModal EXCEPT
                            !.posting = Remove(commentsModal.posting, j)]
    /\ UNCHANGED actions
    /\ alertMsg' = "Failed to post comment."
    /\ consoleMsg' = "Error posting comment:"
    /\ UNCHANGED <<showcase, commentsTbl, otherDialogs>>

\* The query of fetchComments call i returned: setComments(data || []); finally.
FetchCommentsReturned(i) ==
    /\ commentsModal.talent # Null
    /\ i \in 1..Len(commentsModal.fetching)
    /\ LET f == commentsModal.fetching[i]
           data == IF f.resp = "ok" THEN f.rows ELSE QueryComments(commentsModal.talent)
       IN commentsModal' = [commentsModal EXCEPT
                               !.comments = data, !.loading = FALSE,
                               !.fetching = Remove(commentsModal.fetching, i)]
    /\ UNCHANGED actions
    /\ alertMsg' = "none"
    /\ consoleMsg' = "none"
    /\ UNCHANGED <<showcase, commentsTbl, otherDialogs>>

\* if (error) throw error  ->  catch: console.error; finally.
FetchCommentsFailed(i) ==
    /\ commentsModal.talent # Null
    /\ i \in 1..Len(commentsModal.fetching)
    /\ commentsModal.fetching[i].resp = "none"
    /\ commentsModal' = [commentsModal EXCEPT
                            !.loading = FALSE,
                            !.fetching = Remove(commentsModal.fetching, i)]
    /\ UNCHANGED actions
    /\ alertMsg' = "none"
    /\ consoleMsg' = "Error fetching comments:"
    /\ UNCHANGED <<showcase, commentsTbl, otherDialogs>>

\* ---------------------------------------------------- UploadTalentModal
\* 10 * 1024 * 1024
MaxFileSize == 10485760

\* A MIME type, as a sequence of characters, with "video" in it but not at its
\* start.
AudioVideo == <<"x", "/", "v", "i", "d", "e", "o">>

\* The files the viewer may pick: accepted ones of several MIME types (a
\* File's type is '' when the browser does not know it), one of them of the
\* largest accepted size, and one that is too large.
Files == {[size |-> 1, type |-> <<"v", "i", "d", "e", "o", "/", "m", "p", "4">>],
          [size |-> MaxFileSize, type |-> <<"i", "m", "a", "g", "e", "/", "p", "n", "g">>],
          [size |-> 1, type |-> AudioVideo],
          [size |-> 1, type |-> <<>>],
          [size |-> MaxFileSize + 1, type |-> <<"v", "i", "d", "e", "o", "/", "m", "p", "4">>]}

\* No file: mediaFile is null, or the file input is empty.
NoFile == [size |-> Null]

\* String.prototype.startsWith
StartsWith(text, prefix) ==
    Len(text) >= Len(prefix) /\ SubSeq(text, 1, Len(prefix)) = prefix

\* The media type as it would be if the word were looked for anywhere in the type.
MediaTypeByInclusion(file) ==
    IF \E k \in 1..Len(file.type) : StartsWith(SubSeq(file.type, k, Len(file.type)),
                                               <<"v", "i", "d", "e", "o">>)
    THEN "video" ELSE "image"

\* mediaFile.type.startsWith('video') ? 'video' : 'image'
MediaType(file) ==
    IF StartsWith(file.type, <<"v", "i", "d", "e", "o">>) THEN "video" ELSE "image"

\* The store calls of a handleSubmit call: none before the first call ended.
NoSubmit == [nUploads |-> 0, nInserts |-> 0, file |-> NoFile, uploaded |-> FALSE,
             media_type |-> "none"]

\* The store calls of the handleSubmit call in flight, when it ends.
Submitted == [nUploads |-> uploadModal.nUploads, nInserts |-> uploadModal.nInserts,
              file |-> uploadModal.file, uploaded |-> uploadModal.pc = "insert",
              media_type |-> uploadModal.media_type]

\* What the upload dialog leaves alone.
besideUpload == <<profilesTbl, likesTbl, servicesTbl, user, sortBy, talents, services,
                  users, error, writes, lastDone, probe, mounted, commentsTbl,
                  commentsModal, searchQuery>>

\* if (file.size > 10 * 1024 * 1024) { setFileError(...); return; }: the
\* selection made before stays.
FileRejected(modal, file) ==
    [modal EXCEPT !.input = file,
                  !.fileError = "File is too large. Please select a file smaller than 10MB."]

\* The file input changes to `file` (NoFile: the picker was cancelled and the
\* input is empty): handleFileChange.
HandleFileChange(file) ==
    /\ uploadModal.shown
    /\ file \in Files \cup {NoFile} /\ file # uploadModal.input
    /\ uploadModal' =
          IF file = NoFile THEN [uploadModal EXCEPT !.input = NoFile]
          ELSE IF file.size > MaxFileSize THEN FileRejected(uploadModal, file)
          ELSE [uploadModal EXCEPT !.input = file, !.mediaFile = file, !.fileError = ""]
    /\ UNCHANGED actions
    /\ alertMsg' = "none"
    /\ consoleMsg' = "none"
    /\ UNCHANGED <<besideUpload, talentsTbl, mediaTbl, lastSubmit, loading, fetches>>

\* The form is submitted when its required inputs are filled (the file input
\* among them) and the submit button is not disabled.
CanSubmit == uploadModal.shown /\ ~uploadModal.loading /\ uploadModal.input # NoFile

\* if (!user || !mediaFile) { setFileError(...); return; }
HandleSubmitRejected ==
    /\ CanSubmit
    /\ user = Null \/ uploadModal.mediaFile = NoFile
    /\ uploadModal' = [uploadModal EXCEPT
                          !.fileError = "Please select a media file to upload."]
    /\ UserAction
    /\ alertMsg' = "none"
    /\ consoleMsg' = "none"
    /\ UNCHANGED <<besideUpload, talentsTbl, mediaTbl, lastSubmit, loading, fetches>>

\* handleSubmit up to its first await: setLoading(true); setFileError('');
\* the upload of mediaFile is sent.
HandleSubmit ==
    /\ CanSubmit
    /\ user # Null /\ uploadModal.mediaFile # NoFile
    /\ uploadModal' = [uploadModal EXCEPT
                          !.loading = TRUE, !.fileError = "",
                          !.pc = "upload", !.resp = "none",
                          !.file = uploadModal.mediaFile, !.user = user,
                          !.nUploads = 1, !.nInserts = 0, !.media_type = "none"]
    /\ UserAction
    /\ alertMsg' = "none"
    /\ consoleMsg' = "none"
    /\ UNCHANGED <<besideUpload, talentsTbl, mediaTbl, lastSubmit, loading, fetches>>

\* The bucket executes the upload, or fails it.
StoreUpload ==
    /\ uploadModal.shown
    /\ uploadModal.pc = "upload" /\ uploadModal.resp = "none"
    /\ \/ /\ mediaTbl' = Append(mediaTbl, [user |-> uploadModal.user,
                                           file |-> uploadModal.file])
          /\ uploadModal' = [uploadModal EXCEPT !.resp = "ok"]
       \/ /\ uploadModal' = [uploadModal EXCEPT !.resp = "error"]
          /\ UNCHANGED mediaTbl
    /\ UNCHANGED actions
    /\ alertMsg' = "none"
    /\ consoleMsg' = "none"
    /\ UNCHANGED <<besideUpload, talentsTbl, lastSubmit, loading, fetches>>

\* The step as it would be without `if (uploadError) throw uploadError`.
HandleSubmitAfterUploadUnchecked ==
    /\ uploadModal.shown
    /\ uploadModal.pc = "upload" /\ uploadModal.resp \in {"ok", "error"}
    /\ uploadModal' = [uploadModal EXCEPT
                          !.pc = "insert", !.resp = "none",
                          !.nInserts = uploadModal.nInserts + 1,
                          !.media_type = MediaType(uploadModal.file)]
    /\ UNCHANGED actions
    /\ alertMsg' = "none"
    /\ consoleMsg' = "none"
    /\ UNCHANGED <<besideUpload, talentsTbl, mediaTbl, lastSubmit, loading, fetches>>

\* The upload returned no error (getPublicUrl builds the URL locally): the
\* insert into talents is sent, with the media type of the uploaded file.
HandleSubmitAfterUpload ==
    /\ uploadModal.shown
    /\ uploadModal.pc = "upload" /\ uploadModal.resp = "ok"
    /\ uploadModal' = [uploadModal EXCEPT
                          !.pc = "insert", !.resp = "none",
                          !.nInserts = uploadModal.nInserts + 1,
                          !.media_type = MediaType(uploadModal.file)]
    /\ UNCHANGED actions
    /\ alertMsg' = "none"
    /\ consoleMsg' = "none"
    /\ UNCHANGED <<besideUpload, talentsTbl, mediaTbl, lastSubmit, loading, fetches>>

\* The store executes .from('talents').insert({...}), or fails it.  No load of
\* the talents is in flight while the dialog is open.
StoreTalentInsert ==
    /\ uploadModal.shown
    /\ uploadModal.pc = "insert" /\ uploadModal.resp = "none"
    /\ \/ /\ talentsTbl' = talentsTbl \cup
                {[id |-> "t3", user_id |-> uploadModal.user, created_at |-> 3,
                  media_type |-> uploadModal.media_type]}
          /\ uploadModal' = [uploadModal EXCEPT !.resp = "ok"]
       \/ /\ uploadModal' = [uploadModal EXCEPT !.resp = "error"]
          /\ UNCHANGED talentsTbl
    /\ UNCHANGED actions
    /\ alertMsg' = "none"
    /\ consoleMsg' = "none"
    /\ UNCHANGED <<besideUpload, mediaTbl, lastSubmit, loading, fetches>>

\* if (uploadError) throw uploadError / if (insertError) throw insertError:
\* catch (console.error, alert), finally setLoading(false).
HandleSubmitFailed ==
    /\ uploadModal.shown
    /\ uploadModal.pc \in {"upload", "insert"} /\ uploadModal.resp = "error"
    /\ uploadModal' = [uploadModal EXCEPT
                          !.loading = FALSE, !.pc = "idle", !.resp = "none",
                          !.file = NoFile, !.user = Null, !.nUploads = 0,
                          !.nInserts = 0, !.media_type = "none"]
    /\ lastSubmit' = Submitted
    /\ UNCHANGED actions
    /\ alertMsg' = "Error uploading talent: "
    /\ consoleMsg' = "Error uploading talent:"
    /\ UNCHANGED <<besideUpload, talentsTbl, mediaTbl, loading, fetches>>

\* The insert returned no error: onSuccess() is the parent's fetchTalents,
\* onClose() unmounts the dialog.
HandleSubmitSucceeded ==
    /\ uploadModal.shown
    /\ uploadModal.pc = "insert" /\ uploadModal.resp = "ok"
    /\ StartFetch(sortBy, user, Effect)
    /\ uploadModal' = NoUploadModal
    /\ lastSubmit' = Submitted
    /\ UNCHANGED actions
    /\ alertMsg' = "none"
    /\ consoleMsg' = "none"
    /\ UNCHANGED <<besideUpload, talentsTbl, mediaTbl>>

\* ------------------------------------------------------------ search box
\* The unchanged string, where toLowerCase() is called.
ToLowerCaseUnchanged(text) == text

\* String.prototype.toLowerCase(), on texts over the letters a, A, b, B.
ToLowerCase(text) ==
    [k \in 1..Len(text) |->
        CASE text[k] = "A" -> "a"
          [] text[k] = "B" -> "b"
          [] OTHER -> text[k]]

\* String.prototype.includes: `part` occurs in `text` (the empty string occurs
\* in every string).
Includes(text, part) ==
    \E k \in 0..(Len(text) - Len(part)) : SubSeq(text, k + 1, k + Len(part)) = part

\* const filteredTalents = talents.filter(...): the displayed talents whose
\* title, description or one of whose tags (if the record has tags) includes
\* the search text, all in lower case.
FilteredTalents ==
    LET q == ToLowerCase(searchQuery)
        Kept(talent) ==
            \/ Includes(ToLowerCase(talent.title), q)
            \/ Includes(ToLowerCase(talent.description), q)
            \/ /\ "tags" \in DOMAIN talent
               /\ \E k \in 1..Len(talent.tags) : Includes(ToLowerCase(talent.tags[k]), q)
    IN SelectSeq(talents, Kept)

\* The texts typed into the search box.
Queries == {<<>>, <<"a">>, <<"A">>, <<"B">>, <<"a", "b">>, <<"B", "A">>, <<"A", "B", "a">>}

\* onChange={(e) => setSearchQuery(e.target.value)}
SetSearchQuery(q) ==
    /\ mounted = TS
    /\ q \in Queries /\ q # searchQuery
    /\ searchQuery' = q
    /\ UNCHANGED actions
    /\ alertMsg' = "none"
    /\ consoleMsg' = "none"
    /\ UNCHANGED <<showcase, commentsTbl, mediaTbl, commentsModal, uploadModal, lastSubmit>>

\* ------------------------------------------------------------ specification
OwnerOf(id, second) == IF id \in {"t1", "s1"} THEN "ua" ELSE second

\* The store before the component mounts: no talents or both, the second one
\* owned by one of `seconds` ("ua" as the first one, or an owner whose profile
\* is gone); likewise the service requests; the profiles of the viewers, one of
\* them with the protected email; the reaction of "ua" to the first talent.
InitStore(seconds) ==
    /\ \E second \in seconds :
          /\ talentsTbl \in {{}, {[id |-> t, user_id |-> OwnerOf(t, second),
                                   created_at |-> CreatedAt(t)] : t \in TalentIds}}
          /\ servicesTbl \in {{}, {[id |-> x, user_id |-> OwnerOf(x, second),
                                    status |-> "Pending", updated_at |-> "never",
                                    created_at |-> CreatedAt(x)] : x \in ServiceIds}}
    /\ profilesTbl = {[id |-> v, email |-> EmailOf(v), role |-> "admin",
                       created_at |-> CreatedAt(v)] : v \in Viewers}
    /\ likesTbl = [p \in TalentIds \X Viewers |->
                      IF talentsTbl # {} /\ p = <<"t1", "ua">> THEN 1 ELSE 0]

\* A component after its first render and effect: the first load in flight.
InitView(view) ==
    /\ mounted = view
    /\ sortBy = "created_at"
    /\ talents = <<>> /\ services = <<>> /\ users = <<>>
    /\ loading = TRUE
    /\ error = ""
    /\ fetches = <<NewFetch(sortBy, user, Effect)>>
    /\ writes = <<>>
    /\ alertMsg = "none"
    /\ consoleMsg = "none"
    /\ actions = 0
    /\ lastDone = Done(NewFetch(sortBy, user, Effect), <<>>)
    /\ probe = NoProbe

\* No dialog is open, nothing was uploaded or commented, the search box is empty.
NoDialogs ==
    /\ commentsTbl = <<>> /\ mediaTbl = <<>>
    /\ commentsModal = NoCommentsModal /\ uploadModal = NoUploadModal
    /\ lastSubmit = NoSubmit
    /\ searchQuery = <<>>

InitTalentShowcase ==
    /\ InitStore({"gone"})
    /\ servicesTbl = {}
    /\ user \in {Null, "ua"}
    /\ InitView(TS)
    /\ NoDialogs

NextTalentShowcase ==
    \/ \E i \in 1..MaxInFlight : FetchTalentsPrimaryFailed(i)
    \/ \E i \in 1..MaxInFlight : FetchTalentsAfterPrimary(i)
    \/ \E i \in 1..MaxInFlight : FetchTalentsAfterProfiles(i)
    \/ \E i \in 1..MaxInFlight : FetchTalentsAfterLikes(i)
    \/ \E i \in 1..MaxInFlight : FetchTalentsLikesFailed(i)
    \/ \E i \in 1..MaxInFlight : FetchTalentsLikesThrew(i)
    \/ \E k \in SortKeys : SetSortBy(k)
    \/ \E u \in Viewers \cup {Null} : SetUser(u)
    \/ \E t \in TalentIds : HandleLikeNoUser(t)
    \/ \E t \in TalentIds : HandleLikeNotFound(t)
    \/ \E t \in TalentIds : HandleLike(t)
    \/ \E j \in 1..MaxWrites : StoreLikeWrite(j)
    \/ \E j \in 1..MaxWrites : HandleLikeResumed(j)
    \/ \E j \in 1..MaxWrites : HandleLikeThrew(j)

SpecTalentShowcase == InitTalentShowcase /\ [][NextTalentShowcase]_vars

InitAdmin ==
    /\ InitStore({"ua", "gone"})
    /\ user = Null
    /\ \/ InitView(ATS) /\ servicesTbl = {}
       \/ InitView(AHS) /\ talentsTbl = {}
       \/ InitView(AUM) /\ talentsTbl = {} /\ servicesTbl = {}
    /\ NoDialogs

NextAdmin ==
    \/ \E i \in 1..MaxInFlight : FetchAllTalentsPrimaryFailed(i)
    \/ \E i \in 1..MaxInFlight : FetchAllTalentsAfterPrimary(i)
    \/ \E i \in 1..MaxInFlight : FetchAllTalentsAfterProfiles(i)
    \/ \E t \in TalentIds, confirmed \in BOOLEAN : HandleDelete(t, confirmed)
    \/ \E j \in 1..MaxWrites : StoreDeleteTalent(j)
    \/ \E j \in 1..MaxWrites : HandleDeleteSucceeded(j)
    \/ \E j \in 1..MaxWrites : HandleDeleteFailed(j)
    \/ \E i \in 1..MaxInFlight : FetchAllServicesPrimaryFailed(i)
    \/ \E i \in 1..MaxInFlight : FetchAllServicesAfterPrimary(i)
    \/ \E i \in 1..MaxInFlight : FetchAllServicesAfterProfiles(i)
    \/ \E x \in ServiceIds, st \in Statuses : HandleStatusChange(x, st)
    \/ \E j \in 1..MaxWrites : StoreStatusWrite(j)
    \/ \E j \in 1..MaxWrites : HandleStatusChangeSucceeded(j)
    \/ \E j \in 1..MaxWrites : HandleStatusChangeFailed(j)
    \/ \E i \in 1..MaxInFlight : FetchAllUsersFailed(i)
    \/ \E i \in 1..MaxInFlight : FetchAllUsersReturned(i)
    \/ \E id \in Viewers, r \in Roles : HandleRoleChange(id, r)
    \/ \E j \in 1..MaxWrites : StoreRoleWrite(j)
    \/ \E j \in 1..MaxWrites : HandleRoleChangeSucceeded(j)
    \/ \E j \in 1..MaxWrites : HandleRoleChangeFailed(j)

SpecAdmin == InitAdmin /\ [][NextAdmin]_vars

\* Any one of the four components, mounted over any of the initial stores.
Init == InitTalentShowcase \/ InitAdmin

Next == NextTalentShowcase \/ NextAdmin

Spec == Init /\ [][Next]_vars

\* ---- the dialogs of TalentShowcase
\* TalentShowcase at rest, after the load of its first render displayed the
\* talents of the store to `user`.
InitLoaded ==
    /\ mounted = TS
    /\ sortBy = "created_at"
    /\ talents \in {AttachLiked(AttachProfiles(InitialRows(data),
                                               QueryProfilesIn(UserIds(data))),
                                IF user = Null THEN {} ELSE QueryLikesOf(user)) :
                       data \in QueryTalents("created_at")}
    /\ services = <<>> /\ users = <<>>
    /\ loading = FALSE
    /\ error = ""
    /\ fetches = <<>>
    /\ writes = <<>>
    /\ alertMsg = "none"
    /\ consoleMsg = "none"
    /\ actions = 0
    /\ lastDone = Done([NewFetch(sortBy, user, Effect) EXCEPT !.nRows = Len(talents)],
                       talents)
    /\ probe = NoProbe

\* The comments dialog just opened on the first talent (its first render and
\* effect: the first fetchComments in flight), over a thread that is empty or
\* has a comment, next to a comment on the other talent.
InitComments ==
    /\ InitStore({"gone"})
    /\ talentsTbl # {}
    /\ servicesTbl = {}
    /\ user \in {Null, "ua"}
    /\ InitLoaded
    /\ commentsTbl \in
          {<<[content |-> <<"a">>, talent_id |-> "t2", user_id |-> "ub"]>>,
           <<[content |-> <<"a">>, talent_id |-> "t2", user_id |-> "ub"],
             [content |-> <<"a", "a">>, talent_id |-> "t1", user_id |-> "ub"]>>}
    /\ commentsModal = [talent |-> "t1", comments |-> <<>>, newComment |-> <<>>,
                        loading |-> TRUE, fetching |-> <<NewCommentsFetch>>,
                        posting |-> <<>>]
    /\ mediaTbl = <<>>
    /\ uploadModal = NoUploadModal
    /\ lastSubmit = NoSubmit
    /\ searchQuery = <<>>

NextComments ==
    \/ \E text \in Texts : SetNewComment(text)
    \/ HandlePostCommentRejected
    \/ HandlePostComment
    \/ \E j \in 1..MaxWrites : StoreCommentInsert(j)
    \/ \E j \in 1..MaxWrites : HandlePostCommentSucceeded(j)
    \/ \E j \in 1..MaxWrites : HandlePostCommentFailed(j)
    \/ \E i \in 1..MaxInFlight : FetchCommentsReturned(i)
    \/ \E i \in 1..MaxInFlight : FetchCommentsFailed(i)

SpecComments == InitComments /\ [][NextComments]_vars

\* The upload dialog just opened over the loaded talents.
InitUpload ==
    /\ InitStore({"gone"})
    /\ servicesTbl = {}
    /\ user \in {Null, "ua"}
    /\ InitLoaded
    /\ commentsTbl = <<>>
    /\ commentsModal = NoCommentsModal
    /\ mediaTbl = <<>>
    /\ uploadModal = [shown |-> TRUE, loading |-> FALSE, input |-> NoFile,
                      mediaFile |-> NoFile, fileError |-> "", pc |-> "idle",
                      resp |-> "none", file |-> NoFile, user |-> Null,
                      nUploads |-> 0, nInserts |-> 0, media_type |-> "none"]
    /\ lastSubmit = NoSubmit
    /\ searchQuery = <<>>

NextUpload ==
    \/ \E file \in Files \cup {NoFile} : HandleFileChange(file)
    \/ HandleSubmitRejected
    \/ HandleSubmit
    \/ StoreUpload
    \/ HandleSubmitAfterUpload
    \/ StoreTalentInsert
    \/ HandleSubmitFailed
    \/ HandleSubmitSucceeded

SpecUpload == InitUpload /\ [][NextUpload]_vars

\* ---- the search box of TalentShowcase
\* TalentShowcase at rest with a loaded list of at most two talents, of which
\* only what the filter reads is kept: title, description and tags (a record
\* may have no tags, or an empty list of them).
InitFilter ==
    /\ InitStore({"gone"})
    /\ talentsTbl = {} /\ servicesTbl = {}
    /\ user = Null
    /\ mounted = TS
    /\ sortBy = "created_at"
    /\ LET Untagged == [id : {"t1"}, title : {<<"A", "b">>, <<"b">>},
                        description : {<<>>, <<"b", "a">>}]
           Tagged == [id : {"t2"}, title : {<<"b">>}, description : {<<>>, <<"B">>},
                      tags : {<<>>, <<<<"a">>>>, <<<<"b">>, <<"a", "B", "A">>>>}]
       IN talents \in {<<>>} \cup {<<r>> : r \in Untagged \cup Tagged}
                     \cup {<<r1, r2>> : r1 \in Untagged, r2 \in Tagged}
                     \cup {<<r2, r1>> : r1 \in Untagged, r2 \in Tagged}
    /\ services = <<>> /\ users = <<>>
    /\ loading = FALSE
    /\ error = ""
    /\ fetches = <<>>
    /\ writes = <<>>
    /\ alertMsg = "none"
    /\ consoleMsg = "none"
    /\ actions = 0
    /\ lastDone = Done(NewFetch(sortBy, user, Effect), talents)
    /\ probe = NoProbe
    /\ NoDialogs

NextFilter == \E q \in Queries : SetSearchQuery(q)

SpecFilter == InitFilter /\ [][NextFilter]_vars

\* ---- every store call returns
\* The pending query of load i returns, with rows or with an error, and the
\* load function resumes.
QueryReturns(i) ==
    \/ FetchTalentsPrimaryFailed(i) \/ FetchTalentsAfterPrimary(i)
    \/ FetchTalentsAfterProfiles(i)
    \/ FetchTalentsAfterLikes(i) \/ FetchTalentsLikesFailed(i)
    \/ FetchTalentsLikesThrew(i)
    \/ FetchAllTalentsPrimaryFailed(i) \/ FetchAllTalentsAfterPrimary(i)
    \/ FetchAllTalentsAfterProfiles(i)
    \/ FetchAllServicesPrimaryFailed(i) \/ FetchAllServicesAfterPrimary(i)
    \/ FetchAllServicesAfterProfiles(i)
    \/ FetchAllUsersFailed(i) \/ FetchAllUsersReturned(i)

\* The components under the assumption that no query of a load is left
\* unanswered for ever.
SpecReturning ==
    Init /\ [][Next]_vars /\ \A i \in 1..MaxInFlight : WF_vars(QueryReturns(i))

\* ------------------------------------------------------------------ claims
\* C1: after any sequence of handleLike calls, interleaved in any way with
\* loads of the talent list, talent_likes holds at most one row per
\* (item, viewer) pair.
C1_AtMostOneReactionPerPair ==
    \A p \in TalentIds \X Viewers : likesTbl[p] <= 1

\* The displayed record of talent t, if there is one, has these values.
ShowsLike(t, isLiked, likesCount) ==
    \A k \in 1..Len(talents) :
        talents[k].id = t =>
            talents[k].is_liked = isLiked /\ talents[k].likes_count = likesCount

\* C2: once handleLike was called twice for the same (item, viewer), both
\* writes returned without error and every load is over, the item is displayed
\* with the is_liked and the likes_count it had before the first call.
C2_TwoTogglesRestore ==
    (probe.n = 2 /\ user = probe.user /\ fetches = <<>> /\ writes = <<>>) =>
        ShowsLike(probe.id, probe.is_liked, probe.likes_count)

\* The profile with this id is the protected identity.
Protected(id) == \E p \in profilesTbl : p.id = id /\ p.email = ProtectedEmail

\* The load at position i ends in this step: with its list, or without.
Completes(i) == fetches' = Remove(Overtake(i), i)

Ends(i) == Completes(i) \/ fetches' = Remove(fetches, i)

\* C3: no role write is ever issued for the protected profile and its stored
\* role never changes; a role write for any other profile stores the new
\* role, and when the load started by that write completes with no other
\* write executed since, and the table is rendered (no error banner), the
\* list shows the new role for that profile.
C3_RoleUpdate ==
    [][/\ \A j \in 1..Len(writes') :
              writes'[j].op = "role" => ~Protected(writes'[j].id)
       /\ \A p \in profilesTbl, q \in profilesTbl' :
              (p.id = q.id /\ p.email = ProtectedEmail) => q.role = p.role
       /\ \A j \in 1..Len(writes) :
              (/\ Len(writes') = Len(writes)
               /\ writes[j].op = "role"
               /\ writes[j].resp = "none" /\ writes'[j].resp = "ok")
              => \E q \in profilesTbl' :
                    q.id = writes[j].id /\ q.role = writes[j].value
       /\ \A i \in 1..Len(fetches) :
              (/\ fetches[i].cause.op = "role" /\ fetches[i].cause.resp = "ok"
               /\ ~fetches[i].written
               /\ Completes(i) /\ error' = "")
              => \E k \in 1..Len(users') :
                    /\ users'[k].id = fetches[i].cause.id
                    /\ users'[k].role = fetches[i].cause.value]_vars

\* The table shows the protected profile with its role untouched and another
\* profile with the role written by handleRoleChange, as the store holds it.
C3_Witness ==
    /\ mounted = AUM /\ ControlsShown /\ fetches = <<>> /\ writes = <<>>
    /\ \E k \in 1..Len(users) : SelectDisabled(users[k]) /\ users[k].role = "admin"
    /\ \E k \in 1..Len(users) : ~SelectDisabled(users[k]) /\ users[k].role = "user"
    /\ \E p \in profilesTbl : ~Protected(p.id) /\ p.role = "user"

\* C4: while no viewer is signed in no handleLike call adds a store write,
\* and a call that shows the login prompt is made without a viewer and leaves
\* talent_likes, the displayed list, the loads in flight, the writes in
\* flight and the loading flag as they were.
C4_NoViewerNoWrite ==
    [][/\ user = Null => Len(writes') <= Len(writes)
       /\ \A j \in 1..Len(writes') : writes'[j].user # Null
       /\ alertMsg' = AuthRequired =>
              /\ user = Null
              /\ UNCHANGED <<likesTbl, talents, fetches, writes, loading>>]_vars

\* A like button was pressed with no viewer: the prompt is up, the list is
\* displayed, nothing is in flight.
C4_Witness ==
    /\ alertMsg = AuthRequired
    /\ user = Null /\ talents # <<>> /\ fetches = <<>> /\ writes = <<>>

\* C5: when the store write of a handler failed (an error in the result, or a
\* rejected call) and the handler resumes, no load is started, the displayed
\* list is left as it was and a failure message is shown.
C5_FailedWriteAbandons ==
    [][\A j \in 1..Len(writes) :
          (writes[j].resp \in {"error", "threw"} /\ writes' = Remove(writes, j))
          => /\ fetches' = fetches
             /\ Displayed' = Displayed
             /\ alertMsg' # "none"]_vars

\* The lists a load with the sort key and viewer of f derives from the store
\* as it is now.
Derived(f) ==
    CASE mounted = TS ->
            {AttachLiked(AttachProfiles(InitialRows(data), profilesTbl),
                         IF f.user = Null THEN {} ELSE QueryLikesOf(f.user)) :
                data \in QueryTalents(f.sortBy)}
      [] mounted = ATS ->
            {WithProfiles(data, ProfileColumns(profilesTbl), "profile") :
                data \in QueryTalents("created_at")}
      [] mounted = AHS ->
            {WithProfiles(data, ProfileColumns(profilesTbl), "profiles") :
                data \in QueryServices}
      [] OTHER -> QueryUsers

\* C6: a handler whose write succeeded starts one load and leaves the
\* displayed list alone; when the load started by a successful write ends
\* with no other write executed since, the displayed list is the one derived
\* from the store, or else an error is reported.
C6_MutationReloads ==
    [][/\ \A j \in 1..Len(writes) :
              (writes[j].resp = "ok" /\ writes' = Remove(writes, j))
              => /\ Len(fetches') = Len(fetches) + 1
                 /\ fetches'[Len(fetches')].pc = "primary"
                 /\ Displayed' = Displayed
       /\ \A i \in 1..Len(fetches) :
              (/\ fetches[i].cause.resp = "ok" /\ ~fetches[i].written
               /\ Ends(i))
              => Displayed' \in Derived(fetches[i]) \/ error' # ""]_vars

\* C7: the displayed list is the list of the load that completed last,
\* whether or not a load issued after it had completed before.
C7_LastCompletedWins == Displayed = lastDone.result

\* Two loads of the talent list overlapped, the one issued first completed
\* last, and what is displayed is its list: not what a load with the current
\* sort key and viewer derives from the store.
C7_Witness ==
    /\ mounted = TS /\ fetches = <<>> /\ writes = <<>>
    /\ lastDone.overtaken
    /\ talents = lastDone.result
    /\ talents \notin Derived([sortBy |-> sortBy, user |-> user])

\* C8: a load whose primary query returned no rows has issued no profile
\* query and no reaction query, and a load that completed with no primary
\* rows handed over the empty list.
C8_EmptySkipsSecondary ==
    /\ \A i \in 1..Len(fetches) :
          (fetches[i].pc # "primary" /\ fetches[i].nRows = 0)
          => fetches[i].nProfiles = 0 /\ fetches[i].nLikes = 0
    /\ lastDone.nRows = 0 => lastDone.result = <<>>

\* The profile a displayed record with owner uid is to carry: the stored
\* profile with that id, in the columns the component selects, or null.
ExpectedProfile(uid) ==
    LET found == {p \in profilesTbl : p.id = uid}
        shown == IF mounted = TS THEN found ELSE ProfileColumns(found)
    IN IF shown = {} THEN NullProfile ELSE CHOOSE p \in shown : TRUE

\* C9: every displayed record carries the stored profile of its owner, or
\* null when the store has no such profile, and the list of a completed load
\* has as many records as its primary query returned.
C9_ProfileOrNull ==
    /\ \A k \in 1..Len(talents) :
          talents[k].profile = ExpectedProfile(talents[k].user_id)
    /\ \A k \in 1..Len(services) :
          services[k].profiles = ExpectedProfile(services[k].user_id)
    /\ Len(Displayed) = lastDone.nRows

\* A completed load displays one record with its owner's profile and one
\* whose owner has no profile, with null.
C9_Witness ==
    /\ fetches = <<>>
    /\ Len(Displayed) = 2
    /\ \/ \E k, m \in 1..Len(talents) :
             talents[k].profile = NullProfile /\ talents[m].profile # NullProfile
       \/ \E k, m \in 1..Len(services) :
             services[k].profiles = NullProfile /\ services[m].profiles # NullProfile

\* C10: every load in flight has issued one primary query and at most one
\* profile query, and the profile query was sent with each owner id of the
\* primary rows once.
C10_OneQueryPerCollection ==
    \A i \in 1..Len(fetches) :
        LET f == fetches[i]
        IN /\ f.nPrimary = 1
           /\ f.nProfiles <= 1
           /\ f.pc = "primary" => f.nProfiles = 0
           /\ f.pc = "profiles" =>
                 /\ f.nProfiles = 1
                 /\ \A a, b \in 1..Len(f.keys) : a # b => f.keys[a] # f.keys[b]
                 /\ Range(f.keys) = {f.rows[k].user_id : k \in 1..Len(f.rows)}

\* A profile query in flight for two primary rows of one owner, sent with
\* that owner's id once.
C10_Witness ==
    \E i \in 1..Len(fetches) :
        /\ fetches[i].pc = "profiles"
        /\ Len(fetches[i].rows) = 2
        /\ Len(fetches[i].keys) = 1

\* The step is the catch of load i, whose primary or profile query failed.
FailsBeforeLikes(i) ==
    /\ i \in 1..Len(fetches)
    /\ fetches[i].pc \in {"primary", "profiles"}
    /\ fetches' = Remove(fetches, i)
    /\ consoleMsg' = FetchErrorLog

\* C11: when the primary query or the profile query of a load fails, the
\* displayed list is not replaced (no partial result is shown) and the failure
\* is surfaced in the view: the view's error is set.
C11_FailedLoadSurfaced ==
    [][\A i \in 1..MaxInFlight + 1 :
          FailsBeforeLikes(i) => Displayed' = Displayed /\ error' # ""]_vars

\* C12: a load of TalentShowcase made with no viewer never sends the query on
\* talent_likes, and the list it displays has is_liked = false on every record.
C12_NoViewerNoReactionQuery ==
    [][/\ \A k \in 1..Len(fetches') :
             fetches'[k].user = Null =>
                fetches'[k].nLikes = 0 /\ fetches'[k].pc # "likes"
       /\ \A i \in 1..Len(fetches) :
             (Completes(i) /\ consoleMsg' = "none" /\ fetches[i].user = Null) =>
                /\ fetches[i].nLikes = 0
                /\ \A k \in 1..Len(talents') : talents'[k].is_liked = FALSE]_vars

\* The first load of a visitor who is not signed in displayed both talents,
\* one of which another viewer has liked.
C12_Witness ==
    /\ user = Null /\ actions = 0 /\ fetches = <<>>
    /\ Len(talents) = 2
    /\ lastDone.nRows = 2
    /\ likesTbl[<<"t1", "ua">>] = 1

\* C13: handleDelete sends the delete only after the operator confirmed.  When
\* the confirmation is refused, no delete and no load is issued and the list,
\* like the store, is unchanged; every delete that is sent follows an OK; and
\* when the handler of a delete that succeeded resumes, it starts a load.
C13_DeleteOnlyConfirmed ==
    [][mounted = ATS =>
         /\ alertMsg' = ConfirmDialog(FALSE) =>
               UNCHANGED <<writes, fetches, talents, talentsTbl, loading, error>>
         /\ Len(writes') > Len(writes) => alertMsg' = ConfirmDialog(TRUE)
         /\ talentsTbl' # talentsTbl =>
               \E j \in 1..Len(writes) :
                  /\ writes[j].op = "deleteTalent" /\ writes[j].resp = "none"
                  /\ talentsTbl' = {r \in talentsTbl : r.id # writes[j].id}
         /\ \A j \in 1..Len(writes) :
               (writes[j].resp = "ok" /\ writes' = Remove(writes, j)) =>
                  /\ Len(fetches') = Len(fetches) + 1
                  /\ fetches'[Len(fetches')].cause.op = "deleteTalent"
                  /\ fetches'[Len(fetches')].pc = "primary"]_vars

\* The operator confirmed one delete, which succeeded and whose load displayed
\* the remaining talent, and has just refused the confirmation of another.
C13_Witness ==
    /\ mounted = ATS
    /\ alertMsg = ConfirmDialog(FALSE)
    /\ actions = 2
    /\ Cardinality(talentsTbl) = 1 /\ Len(talents) = 1

\* A text that is empty or has whitespace characters only.
Blank(text) == \A k \in 1..Len(text) : text[k] \in Whitespace

\* C14: a submit of the comment form with an empty or whitespace-only text, or
\* with no viewer, sends nothing to the store and leaves the thread unchanged;
\* a comment is sent only with a text that is not blank and a viewer, and the
\* store then inserts exactly that one comment, for the dialog's talent; when
\* the handler of an insert that succeeded resumes, it clears the form and
\* loads the thread of that talent again, and starts no load of the talents.
C14_PostComment ==
    [][commentsModal.talent # Null =>
         /\ (actions' # actions /\ (Blank(commentsModal.newComment) \/ user = Null)) =>
               UNCHANGED <<commentsTbl, commentsModal, fetches, writes, talents>>
         /\ Len(commentsModal'.posting) > Len(commentsModal.posting) =>
               /\ ~Blank(commentsModal.newComment) /\ user # Null
               /\ commentsModal'.posting =
                     Append(commentsModal.posting,
                            [content |-> commentsModal.newComment,
                             talent_id |-> commentsModal.talent,
                             user_id |-> user, resp |-> "none"])
         /\ commentsTbl' # commentsTbl =>
               \E j \in 1..Len(commentsModal.posting) :
                  /\ commentsModal.posting[j].resp = "none"
                  /\ ~Blank(commentsModal.posting[j].content)
                  /\ commentsModal.posting[j].user_id # Null
                  /\ commentsTbl' =
                        Append(commentsTbl,
                               [content |-> commentsModal.posting[j].content,
                                talent_id |-> commentsModal.talent,
                                user_id |-> commentsModal.posting[j].user_id])
         /\ \A j \in 1..Len(commentsModal.posting) :
               (/\ commentsModal.posting[j].resp = "ok"
                /\ commentsModal'.posting = Remove(commentsModal.posting, j)) =>
                  /\ commentsModal'.newComment = <<>>
                  /\ commentsModal'.fetching =
                        Append(commentsModal.fetching, NewCommentsFetch)
                  /\ commentsModal'.comments = commentsModal.comments
                  /\ UNCHANGED <<fetches, talents, loading, commentsTbl>>
         /\ UNCHANGED <<fetches, talents>>]_vars

\* The viewer submitted the form twice; one comment of theirs was inserted and
\* the load that its handler started displayed it in the thread.
C14_Witness ==
    /\ commentsModal.talent # Null
    /\ actions = 2
    /\ Len(QueryComments(commentsModal.talent)) > 0
    /\ commentsModal.comments = QueryComments(commentsModal.talent)
    /\ \E k \in 1..Len(commentsTbl) : commentsTbl[k].user_id = "ua"
    /\ Cardinality({k \in 1..Len(commentsTbl) : commentsTbl[k].user_id = "ua"}) = 1
    /\ commentsModal.posting = <<>> /\ commentsModal.fetching = <<>>

\* C15: the status select of a displayed request accepts each of the other
\* statuses, whatever the displayed one (regressions included); the store
\* changes a request only by setting the status that was asked for together
\* with updated_at; and when the handler of an update that succeeded resumes,
\* it starts a load.
C15_AnyStatusSettable ==
    /\ [](mounted = AHS =>
            \A x \in ServiceIds, st \in Statuses :
               (/\ RowShown(services, x)
                /\ st # DisplayedService(x).status
                /\ Len(writes) < MaxWrites /\ actions < MaxActions) =>
                  ENABLED HandleStatusChange(x, st))
    /\ [][mounted = AHS =>
            /\ Len(writes') > Len(writes) =>
                  /\ writes'[Len(writes')].op = "status"
                  /\ writes'[Len(writes')].value \in Statuses
                  /\ RowShown(services, writes'[Len(writes')].id)
            /\ servicesTbl' # servicesTbl =>
                  \E j \in 1..Len(writes) :
                     /\ writes[j].resp = "none" /\ writes'[j].resp = "ok"
                     /\ \A r \in servicesTbl :
                           IF r.id = writes[j].id
                           THEN [r EXCEPT !.status = writes[j].value,
                                          !.updated_at = "set"] \in servicesTbl'
                           ELSE r \in servicesTbl'
                     /\ Cardinality(servicesTbl') = Cardinality(servicesTbl)
            /\ \A j \in 1..Len(writes) :
                  (writes[j].resp = "ok" /\ writes' = Remove(writes, j)) =>
                     /\ Len(fetches') = Len(fetches) + 1
                     /\ fetches'[Len(fetches')].cause.op = "status"
                     /\ fetches'[Len(fetches')].pc = "primary"]_vars

\* A request that was moved on is displayed with its new status and is then
\* set back to Pending in the store.
C15_Witness ==
    /\ mounted = AHS
    /\ \E r \in servicesTbl :
          /\ r.status = "Pending" /\ r.updated_at = "set"
          /\ \E k \in 1..Len(services) :
                services[k].id = r.id /\ services[k].status \in {"In Progress", "Completed"}

\* The file input of the upload dialog holds a file that is too large.
Oversized(modal) == modal.input # NoFile /\ modal.input.size > MaxFileSize

\* C16: picking a file larger than 10 MB is rejected in the dialog, with its
\* message and no store call; and a submit made while the file input holds
\* such a file (the selections ended with it) sends neither an upload nor an
\* insert.
C16_OversizedNeverSent ==
    [][uploadModal.shown =>
         /\ (uploadModal'.shown /\ uploadModal'.input # uploadModal.input
                /\ Oversized(uploadModal')) =>
               /\ uploadModal'.fileError =
                     "File is too large. Please select a file smaller than 10MB."
               /\ uploadModal'.pc = uploadModal.pc
               /\ UNCHANGED <<mediaTbl, talentsTbl>>
         /\ (actions' # actions /\ Oversized(uploadModal)) =>
               /\ uploadModal'.pc = "idle"
               /\ uploadModal'.nUploads = 0 /\ uploadModal'.nInserts = 0]_vars

\* The MIME type begins with the five letters of "video".
VideoMime(type) ==
    /\ Len(type) >= 5
    /\ type[1] = "v" /\ type[2] = "i" /\ type[3] = "d" /\ type[4] = "e" /\ type[5] = "o"

\* C17 as stated: every submit of the upload form with an accepted file and a
\* viewer makes the store receive exactly one upload call and exactly one
\* insert call.
C17_AlwaysOneInsert ==
    lastSubmit # NoSubmit => lastSubmit.nUploads = 1 /\ lastSubmit.nInserts = 1

\* C17, amended: a submit of the upload form with an accepted file and a viewer
\* sends exactly one upload, of a file of at most 10 MB, and, once that upload
\* has succeeded, exactly one insert (none when the upload failed); the
\* media_type sent and stored is "video" when the file's MIME type starts with
\* "video" and "image" otherwise.
C17_OneUploadThenOneInsert ==
    /\ (uploadModal.shown /\ uploadModal.pc # "idle") =>
          /\ uploadModal.user # Null
          /\ uploadModal.file # NoFile /\ uploadModal.file.size <= MaxFileSize
          /\ uploadModal.nUploads = 1
          /\ uploadModal.nInserts = (IF uploadModal.pc = "insert" THEN 1 ELSE 0)
          /\ uploadModal.pc = "insert" =>
                uploadModal.media_type =
                   (IF VideoMime(uploadModal.file.type) THEN "video" ELSE "image")
    /\ lastSubmit # NoSubmit =>
          /\ lastSubmit.file # NoFile /\ lastSubmit.file.size <= MaxFileSize
          /\ lastSubmit.nUploads = 1
          /\ lastSubmit.nInserts = (IF lastSubmit.uploaded THEN 1 ELSE 0)
          /\ lastSubmit.uploaded =>
                lastSubmit.media_type =
                   (IF VideoMime(lastSubmit.file.type) THEN "video" ELSE "image")
    /\ \A r \in talentsTbl :
          r.id = "t3" =>
             \E k \in 1..Len(mediaTbl) :
                /\ mediaTbl[k].user = r.user_id
                /\ r.media_type =
                      (IF VideoMime(mediaTbl[k].file.type) THEN "video" ELSE "image")

\* A submit uploaded a file whose MIME type has "video" in it but not at its
\* start, inserted its record as an image and closed the dialog.
C17_Witness ==
    /\ ~uploadModal.shown
    /\ lastSubmit.uploaded
    /\ lastSubmit.nUploads = 1 /\ lastSubmit.nInserts = 1
    /\ lastSubmit.file.type = AudioVideo
    /\ lastSubmit.media_type = "image"
    /\ \E r \in talentsTbl : r.id = "t3" /\ r.media_type = "image"

\* The two characters are the same letter, in whatever case.
SameLetter(c, d) == c = d \/ {c, d} = {"a", "A"} \/ {c, d} = {"b", "B"}

\* `part` occurs in `text` when the case of the letters is not looked at.
ContainsNoCase(text, part) ==
    \E k \in 0..(Len(text) - Len(part)) :
       \A m \in 1..Len(part) : SameLetter(text[k + m], part[m])

\* The record has the search text in its title, its description or a tag.
Found(talent) ==
    \/ ContainsNoCase(talent.title, searchQuery)
    \/ ContainsNoCase(talent.description, searchQuery)
    \/ /\ "tags" \in DOMAIN talent
       /\ \E k \in 1..Len(talent.tags) : ContainsNoCase(talent.tags[k], searchQuery)

\* C18: with an empty search text the filter returns the loaded list as it is;
\* with a text it returns, in the list's order, exactly the records whose
\* title, description or at least one tag contains the text case-insensitively,
\* so that a record without tags is kept only for its title or description.
C18_FilterBySubstring ==
    /\ searchQuery = <<>> => FilteredTalents = talents
    /\ searchQuery # <<>> =>
          /\ FilteredTalents = SelectSeq(talents, Found)
          /\ \A k \in 1..Len(talents) :
                (/\ "tags" \notin DOMAIN talents[k]
                 /\ ~ContainsNoCase(talents[k].title, searchQuery)
                 /\ ~ContainsNoCase(talents[k].description, searchQuery)) =>
                   talents[k] \notin Range(FilteredTalents)

\* A search text in capitals keeps the record that has it in a tag, in other
\* case, and drops the record without tags that has it nowhere.
C18_Witness ==
    /\ searchQuery = <<"B", "A">>
    /\ Len(talents) = 2
    /\ Len(FilteredTalents) = 1
    /\ FilteredTalents[1].id = "t2"
    /\ ~ContainsNoCase(FilteredTalents[1].title, searchQuery)
    /\ ~ContainsNoCase(FilteredTalents[1].description, searchQuery)
    /\ \E k \in 1..2 : "tags" \notin DOMAIN talents[k]

\* C19: every store error that a load or a handler catches is turned into a
\* message for the user: the step that catches it shows an alert or sets the
\* view's error, and a load that failed leaves the view's error set.
C19_ErrorsReported ==
    [][consoleMsg' # "none" =>
          /\ alertMsg' # "none" \/ error' # ""
          /\ consoleMsg' = FetchErrorLog => error' # ""]_vars

\* C20: nothing is retried.  The step that catches the failure of a load ends
\* that load and sends nothing; the handler of a write that failed sends
\* nothing when it resumes, neither a write nor the queries of a load; a write
\* is sent only by a user action, one per action, and is attempted once.
C20_NoAutomaticRetry ==
    [][/\ consoleMsg' = FetchErrorLog =>
             /\ \E i \in 1..Len(fetches) : fetches' = Remove(fetches, i)
             /\ writes' = writes
       /\ \A j \in 1..Len(writes) :
             (writes[j].resp \in {"error", "threw"} /\ writes' = Remove(writes, j)) =>
                fetches' = fetches
       /\ Len(writes') > Len(writes) =>
             /\ actions' = actions + 1
             /\ Len(writes') = Len(writes) + 1
             /\ \A j \in 1..Len(writes) : writes'[j] = writes[j]
       /\ Len(writes') = Len(writes) =>
             \A j \in 1..Len(writes) :
                writes[j].resp # "none" => writes'[j].resp = writes[j].resp]_vars

\* C21: within one load the steps are sequential.  The profile query is sent
\* only in the step in which the primary query returned rows without an error,
\* the reaction query only in the step in which the profile query returned
\* (or was skipped for want of an owner id), never twice; and while a load
\* stays in flight the displayed list is left alone: it is replaced only in
\* the step that ends a load, by a load that is past its reaction query or has
\* no viewer to ask for, so once per load and after its last query.
C21_StepsSequential ==
    [][/\ Len(fetches') >= Len(fetches) =>
             /\ talents' = talents /\ lastDone' = lastDone
             /\ \A i \in 1..Len(fetches) :
                   LET f == fetches[i]
                       g == fetches'[i]
                   IN /\ g.nProfiles # f.nProfiles =>
                            /\ f.pc = "primary" /\ g.pc = "profiles"
                            /\ g.nProfiles = 1 /\ g.nLikes = 0
                            /\ consoleMsg' = "none"
                            /\ \E data \in PrimaryAnswer(f) :
                                  data # <<>> /\ g.rows = InitialRows(data)
                      /\ g.nLikes # f.nLikes =>
                            /\ g.pc = "likes" /\ g.nLikes = 1
                            /\ consoleMsg' = "none"
                            /\ \/ f.pc = "profiles" /\ f.nProfiles = 1
                               \/ f.pc = "primary" /\ g.rows = <<>>
                      /\ g.pc # f.pc =>
                            \/ g.nProfiles # f.nProfiles
                            \/ g.nLikes # f.nLikes
       /\ (Len(fetches') < Len(fetches)
           /\ (talents' # talents \/ lastDone' # lastDone)) =>
             \E i \in 1..Len(fetches) :
                /\ Completes(i)
                /\ consoleMsg' = "none"
                /\ talents' = lastDone'.result
                /\ fetches[i].pc = "likes" \/ fetches[i].user = Null
                /\ fetches[i].pc = "primary" => talents' = <<>>
                /\ fetches[i].nLikes = (IF fetches[i].user = Null THEN 0 ELSE 1)
      ]_vars

\* A load that went through its three queries has replaced the list: it had
\* rows (so asked for their profiles) and marked one as liked by the viewer.
C21_Witness ==
    /\ mounted = TS
    /\ lastDone.nRows > 0
    /\ talents = lastDone.result
    /\ \E k \in 1..Len(talents) :
          talents[k].is_liked /\ talents[k].profile # NullProfile

\* The sort key never increases along the listed records.
SortedBy(rows, key) ==
    \A k \in 1..Len(rows) : k < Len(rows) => rows[k][key] >= rows[k + 1][key]

\* C22: whenever no load of the talent list is in flight, the displayed list
\* is ordered descending by the selected sort key, also after the key was
\* changed while an earlier load was in flight.
C22_SortedBySelectedKey ==
    (mounted = TS /\ fetches = <<>>) => SortedBy(talents, sortBy)

\* C22 as it holds: a load that replaces the displayed talent list replaces
\* it with a list ordered descending by the sort key the load was started
\* with, which is the key of the render whose fetchTalents was invoked and
\* not always the key selected when the load completes.
C22_SortedByKeyOfLoad ==
    [][\A i \in 1..Len(fetches) :
          (mounted = TS /\ Completes(i) /\ consoleMsg' = "none") =>
              /\ talents' = lastDone'.result
              /\ SortedBy(talents', fetches[i].sortBy)]_vars

\* No load is in flight and the list of two talents on display was put there
\* by a load that a later one had overtaken: it is ordered by the key that
\* was selected before the sort button was pressed.
C22_Witness ==
    /\ mounted = TS
    /\ fetches = <<>>
    /\ lastDone.overtaken
    /\ talents = lastDone.result
    /\ Len(talents) = 2
    /\ ~SortedBy(talents, sortBy)
    /\ \E k \in SortKeys : SortedBy(talents, k)

\* C23: whenever a load of the talent list is in flight, the loading flag of
\* the view is true, also when several loads overlap.
C23_LoadingWhileInFlight ==
    (mounted \in {TS, ATS} /\ fetches # <<>>) => loading

\* C24: every load that is started eventually sets the loading flag of its
\* view back to false, however it ends.  While n loads are in flight, one of
\* them ends sooner or later, and the step that ends it leaves the flag false.
C24_LoadEndsNotLoading ==
    /\ \A n \in 1..MaxInFlight :
          (Len(fetches) = n) ~> (Len(fetches) < n /\ ~loading)
    /\ [][Len(fetches') < Len(fetches) => ~loading']_vars

\* A load of TalentShowcase over a store with talents has just failed, no
\* load is left and the flag is false.
C24_Witness ==
    /\ mounted = TS
    /\ consoleMsg = FetchErrorLog
    /\ talentsTbl # {}
    /\ lastDone.nRows = 0
    /\ fetches = <<>>
    /\ ~loading

\* C25: once the viewer has changed and no load is in flight any more, the
\* displayed flags are those of the current viewer: with no viewer signed in,
\* no displayed record is marked as liked.
C25_NoViewerNoFlag ==
    (mounted = TS /\ user = Null /\ fetches = <<>>) =>
        \A k \in 1..Len(talents) : ~talents[k].is_liked

\* C26: when the reaction query of a load returns an error, the load still
\* completes: it replaces the displayed list with its records, every one of
\* them with is_liked = false, and clears the loading flag; nothing is logged
\* or shown and no error is set.
C26_FailedReactionQueryIgnored ==
    [][\A i \in 1..MaxInFlight :
          FetchTalentsLikesFailed(i) =>
              /\ Completes(i)
              /\ talents' = lastDone'.result
              /\ Len(talents') = Len(fetches[i].rows)
              /\ \A k \in 1..Len(talents') :
                    /\ ~talents'[k].is_liked
                    /\ talents'[k].id = fetches[i].rows[k].id
                    /\ talents'[k].profile = fetches[i].rows[k].profile
              /\ ~loading'
              /\ consoleMsg' = "none" /\ alertMsg' = "none" /\ error' = ""
      ]_vars

\* The first load of a viewer who has a reaction on t1 displayed t1 as not
\* liked: no user action was taken and no load or write is pending, so it was
\* the reaction query of that load that returned an error.
C26_Witness ==
    /\ mounted = TS
    /\ user = "ua" /\ likesTbl[<<"t1", "ua">>] = 1
    /\ actions = 0 /\ fetches = <<>> /\ writes = <<>>
    /\ ~loading
    /\ talents = lastDone.result
    /\ \E k \in 1..Len(talents) : talents[k].id = "t1" /\ ~talents[k].is_liked

\* C27: handleLike decides its write from the displayed list alone.  A step
\* that sends a write sends exactly one, for an id that the list holds and
\* for the signed-in viewer: the delete when the displayed record has
\* is_liked = true and the insert otherwise; it starts no load and changes
\* neither the list nor the store.  A call with an id that the list does not
\* hold sends no write, starts no load and changes nothing.
C27_WriteFromDisplayedRecord ==
    [][/\ (mounted = TS /\ Len(writes') > Len(writes)) =>
             /\ writes' = Append(writes, writes'[Len(writes')])
             /\ LET w == writes'[Len(writes')]
                IN /\ \E k \in 1..Len(talents) : talents[k].id = w.id
                   /\ w.op = IF FindTalent(w.id).is_liked THEN "delete" ELSE "insert"
                   /\ w.value = user /\ user # Null
                   /\ w.resp = "none"
             /\ UNCHANGED <<fetches, talents, likesTbl, loading>>
       /\ \A t \in TalentIds :
             HandleLikeNotFound(t) =>
                 /\ UNCHANGED <<writes, fetches, talents, likesTbl, loading, user, sortBy>>
                 /\ alertMsg' = "none" /\ consoleMsg' = "none"
      ]_vars

\* An insert is on its way for a pair whose reaction is already stored: the
\* displayed record said is_liked = false, the store was not asked.
C27_Witness ==
    /\ mounted = TS
    /\ \E j \in 1..Len(writes) :
          /\ writes[j].op = "insert" /\ writes[j].resp = "none"
          /\ writes[j].value = user
          /\ likesTbl[<<writes[j].id, writes[j].value>>] >= 1
          /\ \E k \in 1..Len(talents) :
                talents[k].id = writes[j].id /\ ~talents[k].is_liked

\* The bucket holds an object with the file of the handleSubmit call in
\* progress.
Uploaded ==
    \E k \in 1..Len(mediaTbl) :
        mediaTbl[k].file = uploadModal.file /\ mediaTbl[k].user = uploadModal.user

\* C28: in handleSubmit the insert into talents is sent only after the upload
\* of the media file has succeeded, so a failed upload leaves talents without
\* a new row; and when the upload or the insert fails, onSuccess (the re-fetch
\* of the talent list) is not called and the dialog stays open: a load is
\* started and the dialog is closed only by the step that follows a
\* successful insert.
C28_InsertAfterUploadOnly ==
    /\ [](uploadModal.shown =>
             /\ uploadModal.pc = "insert" => Uploaded /\ uploadModal.nUploads = 1
             /\ uploadModal.nInserts > 0 => uploadModal.pc = "insert")
    /\ [][/\ uploadModal.shown
          /\ (uploadModal'.shown /\ uploadModal'.nInserts > uploadModal.nInserts) =>
                /\ uploadModal.pc = "upload" /\ uploadModal.resp = "ok"
                /\ Uploaded
          /\ talentsTbl' # talentsTbl =>
                uploadModal.pc = "insert" /\ Uploaded
          /\ consoleMsg' = "Error uploading talent:" =>
                /\ uploadModal.resp = "error"
                /\ uploadModal'.shown /\ ~uploadModal'.loading
                /\ UNCHANGED <<fetches, loading, talents, talentsTbl, mediaTbl>>
                /\ uploadModal.pc = "upload" =>
                      ~lastSubmit'.uploaded /\ lastSubmit'.nInserts = 0
                /\ alertMsg' = "Error uploading talent: "
          /\ (Len(fetches') > Len(fetches) \/ ~uploadModal'.shown) =>
                /\ uploadModal.pc = "insert" /\ uploadModal.resp = "ok"
                /\ Uploaded
                /\ consoleMsg' = "none"
         ]_vars

\* The upload of the last handleSubmit call failed: no insert was sent, no
\* load was started, the dialog is still open and shows the failure.
C28_Witness ==
    /\ uploadModal.shown /\ uploadModal.pc = "idle"
    /\ lastSubmit.nUploads = 1 /\ ~lastSubmit.uploaded /\ lastSubmit.nInserts = 0
    /\ alertMsg = "Error uploading talent: "
    /\ fetches = <<>>
    /\ mediaTbl = <<>>
    /\ \A r \in talentsTbl : r.id # "t3"

====
